------------------------------ MODULE Identity ------------------------------
(***************************************************************************)
(* Accounts, sign-in, API keys, operator approval and operator management. *)
(*                                                                         *)
(* Every request is one READ COMMITTED transaction, in three steps: it     *)
(* READS what its checks need, it WRITES (the flush, which takes the row   *)
(* and unique-key locks, waits for another transaction that holds them,    *)
(* and fails on a key that is already taken), and it COMMITS or rolls      *)
(* back.  Other requests run between the steps, and mail leaves between    *)
(* the write and the commit.  A request whose checks fail changes nothing  *)
(* and is not a step.                                                      *)
(*                                                                         *)
(* A password is its version: 0 for an account without one, and one more   *)
(* for every reset.  A link is a mailed one-time token; its row is live    *)
(* once the request that mailed it commits.                                *)
(***************************************************************************)
EXTENDS Naturals, FiniteSets

CONSTANTS Emails,        \* the addresses accounts are opened for
          Identities,    \* the (provider, provider_user_id) pairs of sign-in providers
          Links,         \* the one-time tokens that can be mailed
          Sessions,      \* the portal session tokens that can be issued
          Keys,          \* the API keys that can be issued
          Operators,     \* the operator addresses
          Bootstrap,     \* the address of the bootstrap operator
          Builds,        \* the SDK build triples of the approval list
          Requests,      \* the requests the server works on at a time
          Accounts,      \* what an account can be when the model starts
          MaxPassword,   \* bound on the versions of a password
          MaxRequests    \* bound on the requests a behaviour starts

ASSUME IdentityAssumption ==
    /\ Bootstrap \in Operators
    /\ MaxPassword \in Nat /\ MaxRequests \in Nat
    /\ Accounts \subseteq [exists : BOOLEAN, verified : BOOLEAN, password : Nat,
                           approved : BOOLEAN, grants : Nat]
    /\ \A a \in Accounts : a.grants = IF a.approved THEN 1 ELSE 0

VARIABLES user,        \* [Emails -> Account]: the user row, its approval and granted credit
          link,        \* [Links -> one-time token]
          session,     \* [Sessions -> portal session]
          key,         \* [Keys -> API key]
          identity,    \* [Identities -> the linked address, or Nobody]
          operator,    \* [Operators -> operator row]
          sdk,         \* [Builds -> status on the approval list]
          request,     \* [Requests -> the transaction the request is in]
          started,     \* how many requests have started
          overlapped   \* two changes of operators have been in flight together

vars == << user, link, session, key, identity, operator, sdk, request, started, overlapped >>

accounts == << user, link, session, key, identity >>
directory == << operator, sdk >>

Nobody == "nobody"

NoUser == [exists |-> FALSE, verified |-> FALSE, password |-> 0,
           approved |-> FALSE, grants |-> 0]
NoLink == [for |-> "none", owner |-> Nobody, live |-> FALSE, used |-> FALSE, expired |-> FALSE]
NoSession == [owner |-> Nobody, password |-> 0, revoked |-> FALSE,
              expired |-> FALSE, raced |-> FALSE]
NoKey == [owner |-> Nobody, revoked |-> FALSE, used |-> FALSE]
NoOperator == [exists |-> FALSE, role |-> "member", revoked |-> FALSE, token |-> "none"]

Idle == [op |-> "idle", at |-> "none", of |-> Nobody, by |-> Nobody, seen |-> Nobody, list |-> {}]

Roles == {"owner", "member"}
Statuses == {"approved", "deprecated", "blocked"}

IdentityInit ==
    /\ user \in [Emails -> Accounts]
    /\ link = [l \in Links |-> NoLink]
    /\ session = [s \in Sessions |-> NoSession]
    /\ key = [k \in Keys |-> NoKey]
    /\ identity = [i \in Identities |-> Nobody]
    /\ operator = [o \in Operators |-> NoOperator]
    /\ sdk = [b \in Builds |-> "absent"]
    /\ request = [r \in Requests |-> Idle]
    /\ started = 0
    /\ overlapped = FALSE

-----------------------------------------------------------------------------
(* What the dependencies of an endpoint accept.                            *)

\* resolve_session: the session's row, neither revoked nor expired.
SignedIn(s) == session[s].owner /= Nobody /\ ~session[s].revoked /\ ~session[s].expired

\* validate_raw_key: the key's row, not revoked.
KeyWorks(k) == key[k].owner /= Nobody /\ ~key[k].revoked

\* authenticate_operator and get_owner_operator.
IsOperator(o) == operator[o].exists /\ ~operator[o].revoked
IsOwner(o) == IsOperator(o) /\ operator[o].role = "owner"

\* _count_active_owners
Owners == {o \in Operators : IsOwner(o)}

\* The consumable token of one kind: committed, unused, not expired.
Usable(l, kind) ==
    link[l].for = kind /\ link[l].live /\ ~link[l].used /\ ~link[l].expired

-----------------------------------------------------------------------------
(* The life of a transaction.                                              *)

OperatorChanges == {"update", "revoke"}

\* A request starts: it has read `seen`, and works on `of`, `by`.
Read(r, op, of, by, seen) ==
    /\ request[r] = Idle
    /\ started < MaxRequests
    /\ started' = started + 1
    /\ request' = [request EXCEPT ![r] = [op |-> op, at |-> "read", of |-> of, by |-> by,
                                          seen |-> seen, list |-> {}]]
    /\ overlapped' = (\/ overlapped
                      \/ /\ op \in OperatorChanges
                         /\ \E p \in Requests : request[p].op \in OperatorChanges)

\* What a transaction locks when it writes: rows it updates, unique keys it inserts.
Locks(q) ==
    CASE q.op = "signup"  -> {<<"email", q.of>>}
      [] q.op \in {"verify", "reset"} -> {<<"link", q.by>>, <<"user", q.of>>}
      [] q.op = "oauth" /\ q.seen = "fresh" -> {<<"identity", q.by>>, <<"email", q.of>>}
      [] q.op = "oauth" /\ q.seen = "link"  ->
             {<<"identity", q.by>>} \union (IF user[q.of].verified THEN {} ELSE {<<"user", q.of>>})
      [] q.op = "approve" -> {<<"approval", q.of>>}
      [] q.op \in {"useKey", "revokeKey"} -> {<<"key", q.by>>}
      [] q.op \in {"createOperator", "rotate"} \union OperatorChanges -> {<<"operator", q.of>>}
      [] q.op \in {"addBuild", "setBuild", "dropBuild"} -> {<<"build", q.of>>}
      [] OTHER -> {}

Waits(r) == \E p \in Requests \ {r} : /\ request[p].at = "held"
                                      /\ Locks(request[p]) \cap Locks(request[r]) /= {}

\* Mutant: no unique key on the address a sign-up inserts.
ClashBesidesSignup(q) ==
    CASE q.op = "oauth"          -> \/ q.seen /= "known" /\ identity[q.by] /= Nobody
                                    \/ q.seen = "fresh" /\ user[q.of].exists
      [] q.op = "approve"        -> user[q.of].approved
      [] q.op = "createOperator" -> operator[q.of].exists
      [] q.op = "addBuild"       -> sdk[q.of] /= "absent"
      [] q.op = "setBuild"       -> sdk[q.of] = "absent"
      [] OTHER -> FALSE

\* Mutant: no unique key on the active approval either.
ClashBesidesApproval(q) == q.op /= "approve" /\ ClashBesidesSignup(q)

\* A unique key the transaction inserts is taken by now, or a row it updates is gone.
Clash(q) ==
    CASE q.op = "signup"         -> user[q.of].exists
      [] q.op = "oauth"          -> \/ q.seen /= "known" /\ identity[q.by] /= Nobody
                                    \/ q.seen = "fresh" /\ user[q.of].exists
      [] q.op = "approve"        -> user[q.of].approved
      [] q.op = "createOperator" -> operator[q.of].exists
      [] q.op = "addBuild"       -> sdk[q.of] /= "absent"
      [] q.op = "setBuild"       -> sdk[q.of] = "absent"
      [] OTHER -> FALSE

\* Mutant: overlooks the sessions of an account that also signs in through OAuth.
ListedPasswordSessions(q) ==
    IF q.op = "reset"
    THEN {s \in Sessions : /\ session[s].owner = q.of /\ ~session[s].revoked
                           /\ identity = [i \in Identities |-> Nobody]}
    ELSE {}

\* The sessions reset_password finds active once it has the rows it writes.
ListedSessions(q) ==
    IF q.op = "reset"
    THEN {s \in Sessions : session[s].owner = q.of /\ ~session[s].revoked}
    ELSE {}

MailsALink(q) == q.op \in {"signup", "resend", "requestReset"}

\* The flush; a request that mails a link sends it right after.
Write(r) ==
    LET q == request[r] IN
    /\ q.at = "read" /\ ~Waits(r) /\ ~Clash(q)
    /\ IF MailsALink(q)
       THEN \E l \in Links :
              /\ link[l] = NoLink
              /\ link' = [link EXCEPT ![l] = [NoLink EXCEPT
                             !.for = IF q.op = "requestReset" THEN "reset" ELSE "verify",
                             !.owner = q.of]]
              /\ request' = [request EXCEPT ![r].at = "held", ![r].by = l]
       ELSE /\ request' = [request EXCEPT ![r].at = "held", ![r].list = ListedSessions(q)]
            /\ UNCHANGED link
    /\ UNCHANGED << user, session, key, identity, directory, started, overlapped >>

\* IntegrityError or StaleDataError at the flush, a refused send, a failed
\* commit: the session scope rolls back.  A mailed link stays mailed.
Rollback(r) ==
    LET q == request[r] IN
    /\ \/ q.at = "read" /\ ~Waits(r) /\ Clash(q)
       \/ q.at = "held" /\ MailsALink(q)
    /\ request' = [request EXCEPT ![r] = Idle]
    /\ UNCHANGED << accounts, directory, started, overlapped >>

\* The commit of a request of one kind; the caller says what it writes.
Commits(r, op) ==
    /\ request[r].op = op /\ request[r].at = "held"
    /\ request' = [request EXCEPT ![r] = Idle]
    /\ UNCHANGED << started, overlapped >>

-----------------------------------------------------------------------------
(* Accounts.                                                               *)

\* signup
Signup(r, e) ==
    /\ ~user[e].exists
    /\ Read(r, "signup", e, Nobody, Nobody)
    /\ UNCHANGED << accounts, directory >>

Registered(e) == [NoUser EXCEPT !.exists = TRUE, !.password = 1]

SignupCommits(r) ==
    LET q == request[r] IN
    /\ Commits(r, "signup")
    /\ user' = [user EXCEPT ![q.of] = Registered(q.of)]
    /\ link' = [link EXCEPT ![q.by].live = TRUE]
    /\ UNCHANGED << session, key, identity, directory >>

\* request_resend_verification, and an operator's resend_verification (who
\* may also send one to an account without a password).
Resend(r, e) ==
    /\ user[e].exists /\ ~user[e].verified
    /\ user[e].password /= 0 \/ \E o \in Operators : IsOperator(o)
    /\ Read(r, "resend", e, Nobody, Nobody)
    /\ UNCHANGED << accounts, directory >>

\* request_password_reset
RequestReset(r, e) ==
    /\ user[e].exists /\ user[e].password /= 0
    /\ Read(r, "requestReset", e, Nobody, Nobody)
    /\ UNCHANGED << accounts, directory >>

LinkCommits(r) ==
    /\ \E op \in {"resend", "requestReset"} : Commits(r, op)
    /\ link' = [link EXCEPT ![request[r].by].live = TRUE]
    /\ UNCHANGED << user, session, key, identity, directory >>

\* verify_email
VerifyEmail(r, l) ==
    /\ Usable(l, "verify")
    /\ Read(r, "verify", link[l].owner, l, Nobody)
    /\ UNCHANGED << accounts, directory >>

VerifyCommits(r) ==
    LET q == request[r] IN
    /\ Commits(r, "verify")
    /\ user' = [user EXCEPT ![q.of].verified = TRUE]
    /\ link' = [link EXCEPT ![q.by].used = TRUE]
    /\ UNCHANGED << session, key, identity, directory >>

\* reset_password
ResetPassword(r, l) ==
    /\ Usable(l, "reset") /\ user[link[l].owner].password < MaxPassword
    /\ Read(r, "reset", link[l].owner, l, Nobody)
    /\ UNCHANGED << accounts, directory >>

ResetCommits(r) ==
    LET q == request[r] IN
    /\ Commits(r, "reset")
    /\ user' = [user EXCEPT ![q.of].password = @ + 1]
    /\ link' = [link EXCEPT ![q.by].used = TRUE]
    /\ session' = [s \in Sessions |->
                     IF s \in q.list THEN [session[s] EXCEPT !.revoked = TRUE] ELSE session[s]]
    /\ UNCHANGED << key, identity, directory >>

-----------------------------------------------------------------------------
(* Sign-in.                                                                *)

\* A reset that has listed the sessions it will revoke and is not committed.
ResetUnderWay(e) ==
    \E p \in Requests : request[p].op = "reset" /\ request[p].of = e /\ request[p].at = "held"

\* The session row of a sign-in that read `password`; `raced` records that a
\* reset changed it, or listed the sessions to revoke, in the meantime.
SignedInSession(e, password) ==
    [NoSession EXCEPT !.owner = e, !.password = password,
                      !.raced = (user[e].password /= password \/ ResetUnderWay(e))]

NewSession(e, password) ==
    \E s \in Sessions :
        /\ session[s] = NoSession
        /\ session' = [session EXCEPT ![s] = SignedInSession(e, password)]

\* login, with the right password
Login(r, e) ==
    /\ user[e].exists /\ user[e].password /= 0 /\ user[e].verified
    /\ Read(r, "login", e, Nobody, user[e].password)
    /\ UNCHANGED << accounts, directory >>

LoginCommits(r) ==
    LET q == request[r] IN
    /\ Commits(r, "login")
    /\ NewSession(q.of, q.seen)
    /\ UNCHANGED << user, link, key, identity, directory >>

\* oauth_callback_endpoint and find_or_link_user, for an address the provider
\* says is verified: a known identity, an account with that address, or neither.
OAuthCallback(r, i, e) ==
    /\ \/ identity[i] /= Nobody /\ Read(r, "oauth", identity[i], i, "known")
       \/ identity[i] = Nobody /\ user[e].exists /\ Read(r, "oauth", e, i, "link")
       \/ identity[i] = Nobody /\ ~user[e].exists /\ Read(r, "oauth", e, i, "fresh")
    /\ UNCHANGED << accounts, directory >>

\* The user row find_or_link_user leaves.
Linked(e, how) ==
    IF how = "fresh" THEN [NoUser EXCEPT !.exists = TRUE, !.verified = TRUE]
    ELSE [user[e] EXCEPT !.verified = TRUE]

OAuthCommits(r) ==
    LET q == request[r] IN
    /\ Commits(r, "oauth")
    /\ user' = [user EXCEPT ![q.of] = IF q.seen = "known" THEN @ ELSE Linked(q.of, q.seen)]
    /\ identity' = [identity EXCEPT ![q.by] = q.of]
    /\ \E s \in Sessions :
         /\ session[s] = NoSession
         /\ session' = [session EXCEPT ![s] =
                          IF q.seen = "fresh" THEN [NoSession EXCEPT !.owner = q.of]
                          ELSE SignedInSession(q.of, user[q.of].password)]
    /\ UNCHANGED << link, key, directory >>

\* logout_endpoint and revoke_session
Logout(r, s) ==
    /\ session[s].owner /= Nobody /\ ~session[s].revoked
    /\ Read(r, "logout", session[s].owner, s, Nobody)
    /\ UNCHANGED << accounts, directory >>

LogoutCommits(r) ==
    /\ Commits(r, "logout")
    /\ session' = [session EXCEPT ![request[r].by].revoked = TRUE]
    /\ UNCHANGED << user, link, key, identity, directory >>

-----------------------------------------------------------------------------
(* API keys.                                                               *)

\* create_api_key_endpoint
CreateKey(r, s) ==
    /\ SignedIn(s)
    /\ Read(r, "createKey", session[s].owner, s, Nobody)
    /\ UNCHANGED << accounts, directory >>

CreateKeyCommits(r) ==
    /\ Commits(r, "createKey")
    /\ \E k \in Keys :
         /\ key[k] = NoKey
         /\ key' = [key EXCEPT ![k].owner = request[r].of]
    /\ UNCHANGED << user, link, session, identity, directory >>

\* revoke_api_key_endpoint: the key must belong to the signed-in user.
RevokeKey(r, s, k) ==
    /\ SignedIn(s) /\ key[k].owner = session[s].owner
    /\ Read(r, "revokeKey", session[s].owner, k, key[k])
    /\ UNCHANGED << accounts, directory >>

RevokeKeyCommits(r) ==
    /\ Commits(r, "revokeKey")
    /\ key' = [key EXCEPT ![request[r].by].revoked = TRUE]
    /\ UNCHANGED << user, link, session, identity, directory >>

\* get_current_api_key_and_user: a call made with the key; the transaction of
\* the call marks the row used and keeps it locked to the call's end.
UseKey(r, k) ==
    /\ KeyWorks(k)
    /\ Read(r, "useKey", key[k].owner, k, key[k])
    /\ UNCHANGED << accounts, directory >>

\* Mutant: writes back every column it read.
KeyRowRewritten(q) == [q.seen EXCEPT !.used = TRUE]

\* The UPDATE names only the column that changed.
KeyRowUsed(q) == [key[q.by] EXCEPT !.used = TRUE]

UseKeyCommits(r) ==
    LET q == request[r] IN
    /\ Commits(r, "useKey")
    /\ key' = [key EXCEPT ![q.by] = KeyRowUsed(q)]
    /\ UNCHANGED << user, link, session, identity, directory >>

-----------------------------------------------------------------------------
(* Operators.                                                              *)

\* approve_user
Approve(r, o, e) ==
    /\ IsOperator(o) /\ user[e].exists /\ ~user[e].approved
    /\ Read(r, "approve", e, o, Nobody)
    /\ UNCHANGED << accounts, directory >>

\* The approval and the initial credit commit together.
ApproveCommits(r) ==
    LET q == request[r] IN
    /\ Commits(r, "approve")
    /\ user' = [user EXCEPT ![q.of].approved = TRUE, ![q.of].grants = @ + 1]
    /\ UNCHANGED << link, session, key, identity, directory >>

\* create_operator
CreateOperator(r, o, new, role) ==
    /\ IsOwner(o) /\ ~operator[new].exists
    /\ Read(r, "createOperator", new, o, role)
    /\ UNCHANGED << accounts, directory >>

CreateOperatorCommits(r) ==
    LET q == request[r] IN
    /\ Commits(r, "createOperator")
    /\ operator' = [operator EXCEPT ![q.of] = [exists |-> TRUE, role |-> q.seen,
                                               revoked |-> FALSE, token |-> "minted"]]
    /\ UNCHANGED << accounts, sdk >>

\* Mutant: the last owner may be demoted.
MayAlwaysDemote(target) == operator[target].exists

\* update_operator refuses to demote the last owner it can see.
MayDemote(target) == IsOwner(target) => Cardinality(Owners) > 1

UpdateOperator(r, o, target, role) ==
    /\ IsOwner(o) /\ operator[target].exists
    /\ role /= "owner" => MayDemote(target)
    /\ Read(r, "update", target, o, role)
    /\ UNCHANGED << accounts, directory >>

UpdateCommits(r) ==
    /\ Commits(r, "update")
    /\ operator' = [operator EXCEPT ![request[r].of].role = request[r].seen]
    /\ UNCHANGED << accounts, sdk >>

\* revoke_operator: never oneself, never the last owner it can see.
RevokeOperator(r, o, target) ==
    /\ IsOwner(o) /\ target /= o
    /\ operator[target].exists /\ ~operator[target].revoked
    /\ MayDemote(target)
    /\ Read(r, "revoke", target, o, Nobody)
    /\ UNCHANGED << accounts, directory >>

RevokeCommits(r) ==
    /\ Commits(r, "revoke")
    /\ operator' = [operator EXCEPT ![request[r].of].revoked = TRUE]
    /\ UNCHANGED << accounts, sdk >>

\* rotate_operator_token: an owner for anyone, a member for itself.
RotateToken(r, o, target) ==
    /\ IsOperator(o) /\ operator[target].exists
    /\ operator[o].role = "owner" \/ target = o
    /\ Read(r, "rotate", target, o, Nobody)
    /\ UNCHANGED << accounts, directory >>

RotateCommits(r) ==
    /\ Commits(r, "rotate")
    /\ operator' = [operator EXCEPT ![request[r].of].token = "minted"]
    /\ UNCHANGED << accounts, sdk >>

\* ensure_bootstrap_operator: a missing row is created as an owner; an
\* existing one only takes the configured token.
BootstrapRow ==
    IF operator[Bootstrap].exists THEN [operator[Bootstrap] EXCEPT !.token = "configured"]
    ELSE [exists |-> TRUE, role |-> "owner", revoked |-> FALSE, token |-> "configured"]

\* The server starts, or crashes and starts again: the database rolls back
\* what was in flight.
Startup ==
    /\ operator[Bootstrap].token /= "configured" \/ \E r \in Requests : request[r] /= Idle
    /\ operator' = [operator EXCEPT ![Bootstrap] = BootstrapRow]
    /\ request' = [r \in Requests |-> Idle]
    /\ UNCHANGED << accounts, sdk, started, overlapped >>

-----------------------------------------------------------------------------
(* The SDK approval list.                                                  *)

\* create_sdk_approval
AddBuild(r, o, b, status) ==
    /\ IsOperator(o) /\ sdk[b] = "absent"
    /\ Read(r, "addBuild", b, o, status)
    /\ UNCHANGED << accounts, directory >>

\* update_sdk_approval
SetBuild(r, o, b, status) ==
    /\ IsOperator(o) /\ sdk[b] /= "absent"
    /\ Read(r, "setBuild", b, o, status)
    /\ UNCHANGED << accounts, directory >>

BuildCommits(r) ==
    /\ \E op \in {"addBuild", "setBuild"} : Commits(r, op)
    /\ sdk' = [sdk EXCEPT ![request[r].of] = request[r].seen]
    /\ UNCHANGED << accounts, operator >>

\* delete_sdk_approval; a row another request deleted first is no error.
DropBuild(r, o, b) ==
    /\ IsOperator(o) /\ sdk[b] /= "absent"
    /\ Read(r, "dropBuild", b, o, Nobody)
    /\ UNCHANGED << accounts, directory >>

DropBuildCommits(r) ==
    /\ Commits(r, "dropBuild")
    /\ sdk' = [sdk EXCEPT ![request[r].of] = "absent"]
    /\ UNCHANGED << accounts, operator >>

-----------------------------------------------------------------------------
(* Time.                                                                   *)

LinkExpires(l) ==
    /\ link[l] /= NoLink /\ ~link[l].expired
    /\ link' = [link EXCEPT ![l].expired = TRUE]
    /\ UNCHANGED << user, session, key, identity, directory, request, started, overlapped >>

SessionExpires(s) ==
    /\ session[s] /= NoSession /\ ~session[s].expired
    /\ session' = [session EXCEPT ![s].expired = TRUE]
    /\ UNCHANGED << user, link, key, identity, directory, request, started, overlapped >>

-----------------------------------------------------------------------------
AccountStep(r) ==
    \/ \E e \in Emails : Signup(r, e) \/ Resend(r, e) \/ RequestReset(r, e) \/ Login(r, e)
    \/ \E l \in Links : VerifyEmail(r, l) \/ ResetPassword(r, l)
    \/ \E i \in Identities, e \in Emails : OAuthCallback(r, i, e)
    \/ SignupCommits(r) \/ LinkCommits(r) \/ VerifyCommits(r) \/ ResetCommits(r)
    \/ LoginCommits(r) \/ OAuthCommits(r)

KeyStep(r) ==
    \/ \E s \in Sessions : Logout(r, s) \/ CreateKey(r, s)
    \/ \E s \in Sessions, k \in Keys : RevokeKey(r, s, k)
    \/ \E k \in Keys : UseKey(r, k)
    \/ LogoutCommits(r) \/ CreateKeyCommits(r) \/ RevokeKeyCommits(r) \/ UseKeyCommits(r)

ApprovalStep(r) ==
    \/ \E o \in Operators, e \in Emails : Approve(r, o, e)
    \/ ApproveCommits(r)

OperatorStep(r) ==
    \/ \E o, t \in Operators :
         \/ RevokeOperator(r, o, t) \/ RotateToken(r, o, t)
         \/ \E role \in Roles : CreateOperator(r, o, t, role) \/ UpdateOperator(r, o, t, role)
    \/ CreateOperatorCommits(r) \/ UpdateCommits(r) \/ RevokeCommits(r) \/ RotateCommits(r)

BuildStep(r) ==
    \/ \E o \in Operators, b \in Builds :
         \/ DropBuild(r, o, b)
         \/ \E status \in Statuses : AddBuild(r, o, b, status) \/ SetBuild(r, o, b, status)
    \/ BuildCommits(r) \/ DropBuildCommits(r)

IdentityNext ==
    \/ Startup
    \/ \E r \in Requests :
         \/ Write(r) \/ Rollback(r)
         \/ AccountStep(r) \/ KeyStep(r) \/ ApprovalStep(r) \/ OperatorStep(r) \/ BuildStep(r)
    \/ \E l \in Links : LinkExpires(l)
    \/ \E s \in Sessions : SessionExpires(s)

IdentitySpec == IdentityInit /\ [][IdentityNext]_vars

-----------------------------------------------------------------------------
(* Properties.                                                             *)

\* A password reset ends every session opened before it: a session that is
\* still accepted (resolve_session) was opened with the account's current
\* password, unless its sign-in and the reset were in flight together.
PasswordChangeEndsSessions ==
    \A s \in Sessions :
        SignedIn(s) /\ ~session[s].raced => session[s].password = user[session[s].owner].password

\* signup and find_or_link_user check for an account and insert one later:
\* whatever runs in between, an account that exists is never replaced, loses
\* neither its verification, its approval nor its credit, and changes its
\* password only through a reset.
ExistingAccountStays ==
    [][\A e \in Emails : user[e].exists =>
          /\ user'[e].exists
          /\ user[e].verified => user'[e].verified
          /\ user[e].approved => user'[e].approved
          /\ user'[e].grants >= user[e].grants
          /\ user'[e].password /= user[e].password =>
                \E r \in Requests : request[r].op = "reset" /\ request[r].of = e]_vars

\* approve_user grants the initial credit in the transaction that approves: an
\* account has the grant exactly when it is approved, and never twice, also
\* when two operators approve it at once or the server crashes in between.
ApprovalGrantsOnce ==
    \A e \in Emails : user[e].grants = (IF user[e].approved THEN 1 ELSE 0)

\* A revoked session, API key or operator never works again, whatever requests
\* that read the row before the revocation write to it afterwards.
RevocationIsFinal ==
    [][/\ \A s \in Sessions : session[s].revoked => session'[s].revoked
       /\ \A k \in Keys : key[k].revoked => key'[k].revoked
       /\ \A o \in Operators : operator[o].revoked => operator'[o].revoked]_vars

\* Demoting and revoking leave an active owner (update_operator,
\* revoke_operator), unless two such changes were in flight together: each
\* counts the owners without locking them.
OwnerLeftUnlessOverlapped ==
    operator[Bootstrap].exists /\ ~overlapped => Owners /= {}
=============================================================================
