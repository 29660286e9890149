--------------------------- MODULE IdentityProofs ---------------------------
(***************************************************************************)
(* Proofs about accounts, sign-in, keys, approval and operators, for any   *)
(* sets of addresses, sessions, keys and operators and any number of       *)
(* requests in flight.                                                     *)
(***************************************************************************)
EXTENDS Identity, FiniteSetTheorems, TLAPS

Inserts(q) == q.op = "signup" \/ (q.op = "oauth" /\ q.seen = "fresh")
Demotes(q) == q.op = "revoke" \/ (q.op = "update" /\ q.seen # "owner")
Held(r) == request[r].at = "held"
AnotherOwner(o) == \E p \in Operators : p # o /\ IsOwner(p)

UserRow == [exists : BOOLEAN, verified : BOOLEAN, password : Nat, approved : BOOLEAN, grants : Nat]
LinkRow == [for : {"none", "verify", "reset"}, owner : Emails \cup {Nobody}, live : BOOLEAN,
            used : BOOLEAN, expired : BOOLEAN]
SessionRow == [owner : Emails \cup {Nobody}, password : Nat, revoked : BOOLEAN,
               expired : BOOLEAN, raced : BOOLEAN]
KeyRow == [owner : Emails \cup {Nobody}, revoked : BOOLEAN, used : BOOLEAN]
OperatorRow == [exists : BOOLEAN, role : Roles, revoked : BOOLEAN,
                token : {"none", "minted", "configured"}]
Operations == {"idle", "signup", "resend", "requestReset", "verify", "reset", "login", "oauth",
               "logout", "createKey", "revokeKey", "useKey", "approve", "createOperator", "update",
               "revoke", "rotate", "addBuild", "setBuild", "dropBuild"}
Transaction == [op : Operations, at : {"none", "read", "held"},
                of : Emails \cup Operators \cup Builds \cup {Nobody},
                by : Links \cup Identities \cup Sessions \cup Keys \cup Operators \cup {Nobody},
                seen : Nat \cup {Nobody, "known", "link", "fresh"} \cup Roles \cup Statuses \cup KeyRow,
                list : SUBSET Sessions]

(***************************************************************************)
(* Every table keeps its type.                                             *)
(***************************************************************************)
IdentityTypeOK ==
    /\ user \in [Emails -> UserRow]
    /\ link \in [Links -> LinkRow]
    /\ session \in [Sessions -> SessionRow]
    /\ key \in [Keys -> KeyRow]
    /\ identity \in [Identities -> Emails \cup {Nobody}]
    /\ operator \in [Operators -> OperatorRow]
    /\ request \in [Requests -> Transaction]
    /\ overlapped \in BOOLEAN

\* What a transaction read and nothing can take back before it ends: accounts
\* and operators are never deleted.
Grounded(q) ==
    /\ q.op \in {"signup", "resend", "requestReset", "verify", "reset", "login", "oauth", "approve",
                 "createKey"} => q.of \in Emails
    /\ \/ q.op \in {"reset", "requestReset", "login"}
       \/ q.op = "oauth" /\ q.seen # "fresh"
       => user[q.of].exists
    /\ q.op = "login" => q.seen \in Nat
    /\ q.op \in {"createOperator", "update"} => q.seen \in Roles
    /\ q.op = "createOperator" => operator[Bootstrap].exists
    /\ q.op \in {"createOperator"} \cup OperatorChanges => q.of \in Operators
    /\ q.op \in OperatorChanges => operator[q.of].exists

RequestsGrounded == \A r \in Requests : Grounded(request[r])

\* Sessions, identities and reset links belong to accounts that exist.
OwnersExist ==
    /\ \A s \in Sessions : session[s].owner # Nobody =>
         session[s].owner \in Emails /\ user[session[s].owner].exists
    /\ \A i \in Identities : identity[i] # Nobody =>
         identity[i] \in Emails /\ user[identity[i]].exists
    /\ \A l \in Links : link[l].for # "none" => link[l].owner \in Emails
    /\ \A l \in Links : link[l].for = "reset" => user[link[l].owner].exists

\* What the unique keys guarantee from the flush to the commit: nobody else
\* inserts the same account, approval or operator.
InsertsAreSole ==
    \A r \in Requests : Held(r) =>
        /\ Inserts(request[r]) => ~user[request[r].of].exists
        /\ request[r].op = "approve" => ~user[request[r].of].approved
        /\ request[r].op = "createOperator" => ~operator[request[r].of].exists
        /\ \A p \in Requests : Held(p) /\ p # r /\ request[p].of = request[r].of =>
             /\ ~(Inserts(request[p]) /\ Inserts(request[r]))
             /\ ~(request[p].op = "approve" /\ request[r].op = "approve")
             /\ ~(request[p].op = "createOperator" /\ request[r].op = "createOperator")

\* A reset that is about to commit has listed every session it has to end.
ListIsComplete ==
    \A r \in Requests : Held(r) /\ request[r].op = "reset" =>
        \A s \in Sessions :
            session[s].owner = request[r].of /\ ~session[s].revoked /\ ~session[s].raced
                => s \in request[r].list

\* Only operators that exist are revoked, and the bootstrap operator is first.
OperatorsFollowBootstrap ==
    \A o \in Operators : /\ operator[o].revoked => operator[o].exists
                         /\ operator[o].exists => operator[Bootstrap].exists

\* Until two changes of operators overlap, a change in flight is the only one,
\* and a demotion leaves another owner.
ChangesAreSingle ==
    ~overlapped =>
        /\ \A p, r \in Requests :
             request[p].op \in OperatorChanges /\ request[r].op \in OperatorChanges => p = r
        /\ \A r \in Requests : Demotes(request[r]) => AnotherOwner(request[r].of)

(***************************************************************************)
(* The inductive invariant: what requests read before they write still     *)
(* holds where a lock, a unique key or the order of events protects it.    *)
(***************************************************************************)
IdentityInv ==
    /\ IdentityTypeOK
    /\ RequestsGrounded
    /\ OwnersExist
    /\ InsertsAreSole
    /\ ListIsComplete
    /\ OperatorsFollowBootstrap
    /\ ChangesAreSingle
    /\ PasswordChangeEndsSessions
    /\ ApprovalGrantsOnce
    /\ OwnerLeftUnlessOverlapped

-----------------------------------------------------------------------------
(***************************************************************************)
(* The empty tables, and accounts as earlier requests can have left them.  *)
(***************************************************************************)
LEMMA IdentityInitInv == IdentityInit => IdentityInv
<1> SUFFICES ASSUME IdentityInit PROVE IdentityInv
  OBVIOUS
<1> USE IdentityAssumption DEF IdentityInit
<1>1. IdentityTypeOK
  <2>1. user \in [Emails -> UserRow]
    BY DEF UserRow
  <2>2. NoLink \in LinkRow /\ NoSession \in SessionRow /\ NoKey \in KeyRow
    BY DEF NoLink, LinkRow, NoSession, SessionRow, NoKey, KeyRow
  <2>3. NoOperator \in OperatorRow
    BY DEF NoOperator, OperatorRow, Roles
  <2>4. Idle \in Transaction
    BY DEF Idle, Transaction, Operations, Nobody
  <2> QED
    BY <2>1, <2>2, <2>3, <2>4 DEF IdentityTypeOK
<1>2. \A r \in Requests : request[r].op = "idle" /\ request[r].at = "none"
  BY DEF Idle
<1>3. RequestsGrounded /\ InsertsAreSole /\ ListIsComplete
  BY <1>2 DEF RequestsGrounded, Grounded, OperatorChanges, InsertsAreSole, Held, ListIsComplete
<1>4. OwnersExist
  BY DEF OwnersExist, NoSession, NoLink
<1>5. OperatorsFollowBootstrap /\ OwnerLeftUnlessOverlapped
  BY DEF OperatorsFollowBootstrap, OwnerLeftUnlessOverlapped, NoOperator
<1>6. ChangesAreSingle
  BY <1>2 DEF ChangesAreSingle, OperatorChanges, Demotes
<1>7. PasswordChangeEndsSessions
  BY DEF PasswordChangeEndsSessions, SignedIn, NoSession
<1>8. ApprovalGrantsOnce
  BY DEF ApprovalGrantsOnce
<1> QED
  BY <1>1, <1>3, <1>4, <1>5, <1>6, <1>7, <1>8 DEF IdentityInv

(***************************************************************************)
(* A transaction that has only read: what it read is grounded, so it can   *)
(* disturb nothing but the count of operator changes in flight.            *)
(***************************************************************************)
LEMMA ReadKeeps ==
    ASSUME IdentityInv,
           NEW r \in Requests, NEW op, NEW of, NEW by, NEW seen, NEW q \in Transaction,
           q = [op |-> op, at |-> "read", of |-> of, by |-> by, seen |-> seen, list |-> {}],
           Grounded(q), Demotes(q) => AnotherOwner(of),
           Read(r, op, of, by, seen), UNCHANGED <<accounts, directory>>
    PROVE  IdentityInv'
<1>1. /\ user' = user /\ link' = link /\ session' = session /\ key' = key
      /\ identity' = identity /\ operator' = operator
  BY DEF accounts, directory
<1>2. request' = [request EXCEPT ![r] = q]
  BY DEF Read
<1>3. overlapped' = (overlapped \/ (op \in OperatorChanges
                                     /\ \E p \in Requests : request[p].op \in OperatorChanges))
  BY DEF Read
<1>4. q.at = "read" /\ q.op = op /\ q.of = of /\ q.seen = seen
  OBVIOUS
<1>5. request \in [Requests -> Transaction]
  BY DEF IdentityInv, IdentityTypeOK
<1>6. request' \in [Requests -> Transaction]
      /\ \A p \in Requests : request'[p] = IF p = r THEN q ELSE request[p]
  BY <1>2, <1>5
<1>7. IdentityTypeOK'
  BY <1>1, <1>3, <1>6, Zenon DEF IdentityInv, IdentityTypeOK
<1>8. RequestsGrounded'
  BY <1>1, <1>6 DEF IdentityInv, RequestsGrounded, Grounded
<1>9. \A p \in Requests : Held(p)' => p # r /\ Held(p) /\ request'[p] = request[p]
  BY <1>4, <1>6 DEF Held
<1>10. InsertsAreSole'
  BY <1>1, <1>9 DEF IdentityInv, InsertsAreSole
<1>11. ListIsComplete'
  BY <1>1, <1>9 DEF IdentityInv, ListIsComplete
<1>12. OwnersExist' /\ OperatorsFollowBootstrap' /\ PasswordChangeEndsSessions'
       /\ ApprovalGrantsOnce'
  BY <1>1 DEF IdentityInv, OwnersExist, OperatorsFollowBootstrap, PasswordChangeEndsSessions,
              SignedIn, ApprovalGrantsOnce
<1>13. OwnerLeftUnlessOverlapped'
  BY <1>1, <1>3 DEF IdentityInv, OwnerLeftUnlessOverlapped, Owners, IsOwner, IsOperator
<1>14. ChangesAreSingle'
  <2> SUFFICES ASSUME ~overlapped' PROVE ChangesAreSingle'
    BY DEF ChangesAreSingle
  <2>1. ~overlapped /\ (op \in OperatorChanges =>
                          \A p \in Requests : request[p].op \notin OperatorChanges)
    BY <1>3
  <2>2. \A o : AnotherOwner(o)' <=> AnotherOwner(o)
    BY <1>1 DEF AnotherOwner, IsOwner, IsOperator
  <2>3. \A p \in Requests : Demotes(request'[p]) => AnotherOwner(request'[p].of)
    BY <1>4, <1>6, <2>1 DEF IdentityInv, ChangesAreSingle
  <2>4. \A p1, p2 \in Requests :
          request'[p1].op \in OperatorChanges /\ request'[p2].op \in OperatorChanges => p1 = p2
    BY <1>4, <1>6, <2>1 DEF IdentityInv, ChangesAreSingle
  <2> QED
    BY <2>2, <2>3, <2>4 DEF ChangesAreSingle, Demotes
<1> QED
  BY <1>7, <1>8, <1>10, <1>11, <1>12, <1>13, <1>14 DEF IdentityInv

(***************************************************************************)
(* A step that ends transactions, or none, without inserting an account,   *)
(* an approval, a session or an operator and without changing a password   *)
(* or a role.                                                              *)
(***************************************************************************)
LEMMA QuietKeeps ==
    ASSUME IdentityInv, IdentityTypeOK',
           \A p \in Requests : request'[p] \in {request[p], Idle},
           \A e \in Emails : /\ user'[e].exists = user[e].exists
                             /\ user'[e].password = user[e].password
                             /\ user'[e].approved = user[e].approved
                             /\ user'[e].grants = user[e].grants,
           \A s \in Sessions : /\ session'[s].owner = session[s].owner
                               /\ session'[s].password = session[s].password
                               /\ session'[s].raced = session[s].raced
                               /\ session[s].revoked => session'[s].revoked
                               /\ session[s].expired => session'[s].expired,
           \A l \in Links : link'[l].for = link[l].for /\ link'[l].owner = link[l].owner,
           \A o \in Operators : /\ operator'[o].exists = operator[o].exists
                                /\ operator'[o].role = operator[o].role
                                /\ operator'[o].revoked = operator[o].revoked,
           identity' = identity, overlapped' = overlapped
    PROVE  IdentityInv'
<1>0. Bootstrap \in Operators
  BY IdentityAssumption
<1>1. Idle.op = "idle" /\ Idle.at = "none"
  BY DEF Idle
<1>2. RequestsGrounded'
  <2> SUFFICES ASSUME NEW p \in Requests PROVE Grounded(request[p])'
    BY DEF RequestsGrounded
  <2>1. CASE request'[p] = Idle
    BY <1>1, <2>1 DEF Grounded, OperatorChanges
  <2>2. CASE request'[p] = request[p]
    BY <1>0, <2>2 DEF IdentityInv, IdentityTypeOK, RequestsGrounded, Grounded, OperatorChanges
  <2> QED
    BY <2>1, <2>2
<1>3. OwnersExist' /\ OperatorsFollowBootstrap'
  BY <1>0 DEF IdentityInv, OwnersExist, OperatorsFollowBootstrap
<1>4. \A p \in Requests : Held(p)' => Held(p) /\ request'[p] = request[p]
  BY <1>1 DEF Held
<1>5. \A p \in Requests : Grounded(request[p])
  BY DEF IdentityInv, RequestsGrounded
<1>6. InsertsAreSole'
  <2>1. \A p \in Requests :
          /\ Inserts(request[p]) \/ request[p].op = "approve" => request[p].of \in Emails
          /\ request[p].op = "createOperator" => request[p].of \in Operators
    BY <1>5 DEF Grounded, Inserts
  <2> QED
    BY <1>4, <2>1 DEF IdentityInv, InsertsAreSole, Inserts
<1>7. ListIsComplete'
  BY <1>4 DEF IdentityInv, ListIsComplete
<1>8. PasswordChangeEndsSessions'
  BY DEF IdentityInv, PasswordChangeEndsSessions, SignedIn, OwnersExist
<1>9. ApprovalGrantsOnce'
  BY DEF IdentityInv, ApprovalGrantsOnce
<1>10. \A o \in Operators : IsOwner(o)' <=> IsOwner(o)
  BY DEF IsOwner, IsOperator
<1>11. OwnerLeftUnlessOverlapped'
  BY <1>0, <1>10 DEF IdentityInv, OwnerLeftUnlessOverlapped, Owners
<1>12. ChangesAreSingle'
  BY <1>1, <1>10 DEF IdentityInv, ChangesAreSingle, OperatorChanges, Demotes, AnotherOwner
<1> QED
  BY <1>2, <1>3, <1>6, <1>7, <1>8, <1>9, <1>11, <1>12 DEF IdentityInv

-----------------------------------------------------------------------------
(***************************************************************************)
(* A commit ends its own transaction and no other.                         *)
(***************************************************************************)
LEMMA CommitEnds ==
    ASSUME IdentityInv, NEW r \in Requests, NEW op, Commits(r, op)
    PROVE  /\ request' \in [Requests -> Transaction]
           /\ \A p \in Requests : request'[p] = IF p = r THEN Idle ELSE request[p]
           /\ \A p \in Requests : Held(p)' => p # r /\ Held(p) /\ request'[p] = request[p]
           /\ overlapped' = overlapped
           /\ Held(r) /\ request[r].op = op /\ Grounded(request[r])
<1>1. request \in [Requests -> Transaction]
  BY DEF IdentityInv, IdentityTypeOK
<1>2. request' = [request EXCEPT ![r] = Idle] /\ overlapped' = overlapped
  BY DEF Commits
<1>3. Idle \in Transaction /\ Idle.at = "none"
  BY DEF Idle, Transaction, Operations, Nobody
<1>4. Held(r) /\ request[r].op = op /\ Grounded(request[r])
  BY DEF Commits, Held, IdentityInv, RequestsGrounded
<1> QED
  BY <1>1, <1>2, <1>3, <1>4 DEF Held

(***************************************************************************)
(* What a transaction read stays true while accounts and operators are     *)
(* only added.                                                             *)
(***************************************************************************)
LEMMA GroundedStays ==
    ASSUME IdentityInv,
           \A p \in Requests : request'[p] \in {request[p], Idle},
           \A e \in Emails : user[e].exists => user'[e].exists,
           \A o \in Operators : operator[o].exists => operator'[o].exists
    PROVE  RequestsGrounded'
<1> SUFFICES ASSUME NEW p \in Requests PROVE Grounded(request[p])'
  BY DEF RequestsGrounded
<1>1. Bootstrap \in Operators
  BY IdentityAssumption
<1>2. CASE request'[p] = Idle
  BY <1>2 DEF Grounded, OperatorChanges, Idle
<1>3. CASE request'[p] = request[p]
  BY <1>1, <1>3 DEF IdentityInv, RequestsGrounded, Grounded, OperatorChanges
<1> QED
  BY <1>2, <1>3

(***************************************************************************)
(* What no step on accounts alone can disturb.                             *)
(***************************************************************************)
LEMMA DirectoryStays ==
    ASSUME IdentityInv, \A p \in Requests : request'[p] \in {request[p], Idle},
           operator' = operator, overlapped' = overlapped
    PROVE  OperatorsFollowBootstrap' /\ ChangesAreSingle' /\ OwnerLeftUnlessOverlapped'
<1>1. \A o : IsOwner(o)' <=> IsOwner(o)
  BY DEF IsOwner, IsOperator
<1>2. Idle.op = "idle"
  BY DEF Idle
<1> QED
  BY <1>1, <1>2 DEF IdentityInv, OperatorsFollowBootstrap, ChangesAreSingle, OperatorChanges,
                    Demotes, AnotherOwner, OwnerLeftUnlessOverlapped, Owners

(***************************************************************************)
(* The unique keys the inserting transactions hold.                        *)
(***************************************************************************)
LEMMA InsertsLock ==
    ASSUME NEW q
    PROVE  /\ Inserts(q) => <<"email", q.of>> \in Locks(q)
           /\ q.op = "approve" => <<"approval", q.of>> \in Locks(q)
           /\ q.op = "createOperator" => <<"operator", q.of>> \in Locks(q)
<1>1. q.op = "signup" => <<"email", q.of>> \in Locks(q)
  <2> SUFFICES ASSUME q.op = "signup" PROVE <<"email", q.of>> \in Locks(q)
    OBVIOUS
  <2>1. Locks(q) = {<<"email", q.of>>}
    BY DEF Locks, OperatorChanges
  <2> QED
    BY <2>1
<1>2. q.op = "oauth" /\ q.seen = "fresh" => <<"email", q.of>> \in Locks(q)
  <2> SUFFICES ASSUME q.op = "oauth", q.seen = "fresh" PROVE <<"email", q.of>> \in Locks(q)
    OBVIOUS
  <2>1. Locks(q) = {<<"identity", q.by>>, <<"email", q.of>>}
    BY DEF Locks, OperatorChanges
  <2> QED
    BY <2>1
<1>3. q.op = "approve" => <<"approval", q.of>> \in Locks(q)
  <2> SUFFICES ASSUME q.op = "approve" PROVE <<"approval", q.of>> \in Locks(q)
    OBVIOUS
  <2>1. Locks(q) = {<<"approval", q.of>>}
    BY DEF Locks, OperatorChanges
  <2> QED
    BY <2>1
<1>4. q.op = "createOperator" => <<"operator", q.of>> \in Locks(q)
  <2> SUFFICES ASSUME q.op = "createOperator" PROVE <<"operator", q.of>> \in Locks(q)
    OBVIOUS
  <2>1. Locks(q) = {<<"operator", q.of>>}
    BY DEF Locks, OperatorChanges
  <2> QED
    BY <2>1
<1> QED
  BY <1>1, <1>2, <1>3, <1>4 DEF Inserts

(***************************************************************************)
(* The flush: the unique keys and row locks it takes are what the commit   *)
(* relies on.                                                              *)
(***************************************************************************)
LEMMA WriteKeeps ==
    ASSUME IdentityInv, NEW r \in Requests, Write(r)
    PROVE  IdentityInv'
<1> DEFINE q == request[r]
<1>1. /\ user' = user /\ session' = session /\ key' = key /\ identity' = identity
      /\ operator' = operator /\ overlapped' = overlapped
  BY DEF Write, directory
<1>2. request \in [Requests -> Transaction] /\ q \in Transaction /\ link \in [Links -> LinkRow]
  BY DEF IdentityInv, IdentityTypeOK
<1>3. Grounded(q)
  BY DEF IdentityInv, RequestsGrounded
<1>4. q.at = "read" /\ ~Waits(r) /\ ~Clash(q)
  BY DEF Write
<1> DEFINE Flushed == /\ request' \in [Requests -> Transaction]
                      /\ \A p \in Requests \ {r} : request'[p] = request[p]
                      /\ request'[r].op = q.op /\ request'[r].of = q.of /\ request'[r].seen = q.seen
                      /\ request'[r].at = "held"
                      /\ q.op = "reset" => request'[r].list = ListedSessions(q)
<1>5. Flushed
  <2>1. ASSUME NEW l \in Links, MailsALink(q),
               request' = [request EXCEPT ![r].at = "held", ![r].by = l]
        PROVE  Flushed
    <3>1. q.op # "reset"
      BY <2>1 DEF MailsALink
    <3>2. [q EXCEPT !.at = "held", !.by = l] \in Transaction
      BY <1>2 DEF Transaction
    <3> QED
      BY <1>2, <2>1, <3>1, <3>2 DEF Transaction
  <2>2. ASSUME request' = [request EXCEPT ![r].at = "held", ![r].list = ListedSessions(q)]
        PROVE  Flushed
    <3>1. ListedSessions(q) \in SUBSET Sessions
      BY DEF ListedSessions
    <3>2. [q EXCEPT !.at = "held", !.list = ListedSessions(q)] \in Transaction
      BY <1>2, <3>1 DEF Transaction
    <3> QED
      BY <1>2, <2>2, <3>2 DEF Transaction
  <2> QED
    BY <2>1, <2>2 DEF Write
<1>6. /\ link' \in [Links -> LinkRow]
      /\ \A l \in Links : \/ link'[l].for = link[l].for /\ link'[l].owner = link[l].owner
                          \/ /\ MailsALink(q) /\ link'[l].owner = q.of
                             /\ link'[l].for = "reset" => q.op = "requestReset"
  <2>1. CASE ~MailsALink(q)
    BY <1>2, <2>1 DEF Write
  <2>2. CASE MailsALink(q)
    <3> DEFINE new == [NoLink EXCEPT !.for = IF q.op = "requestReset" THEN "reset" ELSE "verify",
                                     !.owner = q.of]
    <3>1. PICK l \in Links : link' = [link EXCEPT ![l] = new]
      BY <2>2 DEF Write
    <3>2. q.of \in Emails
      BY <1>3, <2>2 DEF Grounded, MailsALink
    <3>3. new \in LinkRow /\ new.owner = q.of /\ (new.for = "reset" => q.op = "requestReset")
      BY <3>2 DEF NoLink, LinkRow
    <3> HIDE DEF new, q
    <3> QED
      BY <1>2, <2>2, <3>1, <3>3
  <2> QED
    BY <2>1, <2>2
<1>7. IdentityTypeOK'
  BY <1>1, <1>5, <1>6, Zenon DEF IdentityInv, IdentityTypeOK
<1>8. RequestsGrounded'
  BY <1>1, <1>3, <1>5 DEF IdentityInv, RequestsGrounded, Grounded
<1>9. OwnersExist'
  BY <1>1, <1>3, <1>6 DEF IdentityInv, OwnersExist, Grounded, MailsALink
<1>10. \A p \in Requests : Held(p)' => /\ request'[p].op = request[p].op
                                       /\ request'[p].of = request[p].of
                                       /\ request'[p].seen = request[p].seen
                                       /\ p # r => Held(p) /\ request'[p] = request[p]
  BY <1>5 DEF Held
<1>11. \A p \in Requests \ {r} : Held(p) => Locks(request[p]) \cap Locks(q) = {}
  BY <1>4 DEF Waits, Held
<1>12. /\ Inserts(q) => <<"email", q.of>> \in Locks(q) /\ ~user[q.of].exists
       /\ q.op = "approve" => <<"approval", q.of>> \in Locks(q) /\ ~user[q.of].approved
       /\ q.op = "createOperator" => <<"operator", q.of>> \in Locks(q) /\ ~operator[q.of].exists
  BY <1>4, InsertsLock DEF Inserts, Clash
<1>13. \A p \in Requests :
         /\ Inserts(request[p]) => <<"email", request[p].of>> \in Locks(request[p])
         /\ request[p].op = "approve" => <<"approval", request[p].of>> \in Locks(request[p])
         /\ request[p].op = "createOperator" => <<"operator", request[p].of>> \in Locks(request[p])
  BY InsertsLock
<1>14. \A p \in Requests \ {r} : Held(p) /\ request[p].of = q.of =>
         /\ ~(Inserts(request[p]) /\ Inserts(q))
         /\ ~(request[p].op = "approve" /\ q.op = "approve")
         /\ ~(request[p].op = "createOperator" /\ q.op = "createOperator")
  BY <1>11, <1>12, <1>13
<1>15. InsertsAreSole'
  <2> SUFFICES ASSUME NEW p1 \in Requests, Held(p1)'
               PROVE  /\ Inserts(request'[p1]) => ~user[request'[p1].of].exists
                      /\ request'[p1].op = "approve" => ~user[request'[p1].of].approved
                      /\ request'[p1].op = "createOperator" => ~operator[request'[p1].of].exists
                      /\ \A p2 \in Requests :
                           Held(p2)' /\ p2 # p1 /\ request'[p2].of = request'[p1].of =>
                           /\ ~(Inserts(request'[p2]) /\ Inserts(request'[p1]))
                           /\ ~(request'[p2].op = "approve" /\ request'[p1].op = "approve")
                           /\ ~(request'[p2].op = "createOperator" /\ request'[p1].op = "createOperator")
    BY <1>1 DEF InsertsAreSole, Inserts
  <2>1. \A p \in Requests : Held(p)' => (Inserts(request'[p]) <=> Inserts(request[p]))
    BY <1>10 DEF Inserts
  <2>2. CASE p1 = r
    BY <1>10, <1>12, <1>14, <2>1, <2>2
  <2>3. CASE p1 # r
    <3>1. Held(p1) /\ request'[p1] = request[p1]
      BY <1>10, <2>3
    <3>2. \A p2 \in Requests : Held(p2)' /\ p2 # p1 /\ p2 # r => Held(p2) /\ request'[p2] = request[p2]
      BY <1>10
    <3> QED
      BY <1>10, <1>14, <2>1, <2>3, <3>1, <3>2 DEF IdentityInv, InsertsAreSole
  <2> QED
    BY <2>2, <2>3
<1>16. ListIsComplete'
  <2> SUFFICES ASSUME NEW p \in Requests, Held(p)', request'[p].op = "reset",
                      NEW s \in Sessions, session[s].owner = request'[p].of,
                      ~session[s].revoked, ~session[s].raced
               PROVE  s \in request'[p].list
    BY <1>1 DEF ListIsComplete
  <2>1. CASE p = r
    BY <1>5, <2>1 DEF ListedSessions
  <2>2. CASE p # r
    BY <1>10, <2>2 DEF IdentityInv, ListIsComplete
  <2> QED
    BY <2>1, <2>2
<1>17. OperatorsFollowBootstrap' /\ PasswordChangeEndsSessions' /\ ApprovalGrantsOnce'
       /\ OwnerLeftUnlessOverlapped'
  BY <1>1 DEF IdentityInv, OperatorsFollowBootstrap, PasswordChangeEndsSessions, SignedIn,
              ApprovalGrantsOnce, OwnerLeftUnlessOverlapped, Owners, IsOwner, IsOperator
<1>18. ChangesAreSingle'
  <2>1. \A p \in Requests : /\ request'[p].op = request[p].op
                            /\ request'[p].of = request[p].of
                            /\ request'[p].seen = request[p].seen
    BY <1>5
  <2>2. \A o : AnotherOwner(o)' <=> AnotherOwner(o)
    BY <1>1 DEF AnotherOwner, IsOwner, IsOperator
  <2> QED
    BY <1>1, <2>1, <2>2 DEF IdentityInv, ChangesAreSingle, Demotes
<1> QED
  BY <1>7, <1>8, <1>9, <1>15, <1>16, <1>17, <1>18 DEF IdentityInv

(***************************************************************************)
(* Rows stay owned while accounts are only added.                          *)
(***************************************************************************)
LEMMA RowsStayOwned ==
    ASSUME OwnersExist, \A f \in Emails : user[f].exists => user'[f].exists
    PROVE  /\ \A s \in Sessions : session'[s].owner = session[s].owner =>
                (session'[s].owner # Nobody =>
                    session'[s].owner \in Emails /\ user'[session'[s].owner].exists)
           /\ \A i \in Identities : identity'[i] = identity[i] =>
                (identity'[i] # Nobody => identity'[i] \in Emails /\ user'[identity'[i]].exists)
           /\ \A l \in Links : link'[l].for = link[l].for /\ link'[l].owner = link[l].owner =>
                /\ link'[l].for # "none" => link'[l].owner \in Emails
                /\ link'[l].for = "reset" => user'[link'[l].owner].exists
<1>1. \A s \in Sessions : session'[s].owner = session[s].owner =>
        (session'[s].owner # Nobody => session'[s].owner \in Emails /\ user'[session'[s].owner].exists)
  BY DEF OwnersExist
<1>2. \A i \in Identities : identity'[i] = identity[i] =>
        (identity'[i] # Nobody => identity'[i] \in Emails /\ user'[identity'[i]].exists)
  BY DEF OwnersExist
<1>3. \A l \in Links : link'[l].for = link[l].for /\ link'[l].owner = link[l].owner =>
        /\ link'[l].for # "none" => link'[l].owner \in Emails
        /\ link'[l].for = "reset" => user'[link'[l].owner].exists
  BY DEF OwnersExist
<1> QED
  BY <1>1, <1>2, <1>3

-----------------------------------------------------------------------------
(***************************************************************************)
(* The commit of a sign-up or of an OAuth sign-in changes one account,     *)
(* `row`, that it either inserts or leaves with its password, approval and *)
(* credit.  No session or reset can be about an account that is inserted.  *)
(***************************************************************************)
LEMMA AccountCommits ==
    ASSUME IdentityInv, NEW r \in Requests, NEW op, Commits(r, op),
           NEW e \in Emails, e = request[r].of, NEW row \in UserRow, row.exists,
           user' = [user EXCEPT ![e] = row],
           \/ Inserts(request[r]) /\ ~row.approved /\ row.grants = 0
           \/ /\ user[e].exists /\ row.password = user[e].password
              /\ row.approved = user[e].approved /\ row.grants = user[e].grants,
           operator' = operator
    PROVE  /\ user' \in [Emails -> UserRow]
           /\ \A f \in Emails : user'[f] = IF f = e THEN row ELSE user[f]
           /\ \A f \in Emails : user[f].exists =>
                user'[f].exists /\ user'[f].password = user[f].password
           /\ Inserts(request[r]) => ~user[e].exists
           /\ RequestsGrounded' /\ InsertsAreSole' /\ ApprovalGrantsOnce'
           /\ OperatorsFollowBootstrap' /\ ChangesAreSingle' /\ OwnerLeftUnlessOverlapped'
<1>1. user \in [Emails -> UserRow]
  BY DEF IdentityInv, IdentityTypeOK
<1>2. user' \in [Emails -> UserRow] /\ \A f \in Emails : user'[f] = IF f = e THEN row ELSE user[f]
  BY <1>1
<1>3. Inserts(request[r]) => ~user[e].exists
  BY CommitEnds DEF IdentityInv, InsertsAreSole
<1>4. \A f \in Emails : user[f].exists => user'[f].exists /\ user'[f].password = user[f].password
  BY <1>2, <1>3
<1>5. RequestsGrounded'
  BY <1>4, CommitEnds, GroundedStays
<1>6. OperatorsFollowBootstrap' /\ ChangesAreSingle' /\ OwnerLeftUnlessOverlapped'
  BY CommitEnds, DirectoryStays
<1>7. ApprovalGrantsOnce'
  BY <1>2 DEF IdentityInv, ApprovalGrantsOnce
<1>8. InsertsAreSole'
  <2>1. \A p \in Requests : Held(p)' => p # r /\ Held(p) /\ request'[p] = request[p]
    BY CommitEnds
  <2>2. \A p \in Requests : Inserts(request[p]) \/ request[p].op = "approve" => request[p].of \in Emails
    BY DEF IdentityInv, RequestsGrounded, Grounded, Inserts
  <2>3. \A p \in Requests : Held(p)' /\ Inserts(request[p]) => ~user'[request[p].of].exists
    BY <1>2, <2>1, <2>2, CommitEnds DEF IdentityInv, InsertsAreSole
  <2>4. \A p \in Requests : Held(p)' /\ request[p].op = "approve" => ~user'[request[p].of].approved
    BY <1>2, <2>1, <2>2 DEF IdentityInv, InsertsAreSole
  <2> QED
    BY <2>1, <2>3, <2>4 DEF IdentityInv, InsertsAreSole, Inserts
<1> QED
  BY <1>2, <1>3, <1>4, <1>5, <1>6, <1>7, <1>8

(***************************************************************************)
(* signup commits: the account is new, so no session can be about it.      *)
(***************************************************************************)
LEMMA SignupKeeps ==
    ASSUME IdentityInv, NEW r \in Requests, SignupCommits(r)
    PROVE  IdentityInv'
<1> DEFINE q == request[r]
           row == Registered(q.of)
<1>1. /\ Commits(r, "signup") /\ user' = [user EXCEPT ![q.of] = row]
      /\ link' = [link EXCEPT ![q.by].live = TRUE]
      /\ session' = session /\ key' = key /\ identity' = identity /\ operator' = operator
  BY DEF SignupCommits, directory
<1>2. q.op = "signup" /\ q.of \in Emails /\ Inserts(q)
  BY <1>1, CommitEnds DEF Grounded, Inserts
<1>3. row \in UserRow /\ row.exists /\ ~row.approved /\ row.grants = 0
  BY DEF Registered, NoUser, UserRow
<1>4. /\ link' \in [Links -> LinkRow]
      /\ \A l \in Links : link'[l].for = link[l].for /\ link'[l].owner = link[l].owner
  BY <1>1 DEF IdentityInv, IdentityTypeOK, LinkRow
<1> HIDE DEF row
<1>5. /\ user' \in [Emails -> UserRow]
      /\ \A f \in Emails : user[f].exists => user'[f].exists /\ user'[f].password = user[f].password
      /\ RequestsGrounded' /\ InsertsAreSole' /\ ApprovalGrantsOnce'
      /\ OperatorsFollowBootstrap' /\ ChangesAreSingle' /\ OwnerLeftUnlessOverlapped'
  BY <1>1, <1>2, <1>3, AccountCommits
<1>6. /\ request' \in [Requests -> Transaction] /\ overlapped' = overlapped
      /\ \A p \in Requests : Held(p)' => Held(p) /\ request'[p] = request[p]
  BY <1>1, CommitEnds
<1>7. IdentityTypeOK'
  BY <1>1, <1>4, <1>5, <1>6, Zenon DEF IdentityInv, IdentityTypeOK
<1>8. OwnersExist'
  BY <1>1, <1>4, <1>5, RowsStayOwned DEF IdentityInv, OwnersExist
<1>9. ListIsComplete'
  BY <1>1, <1>6 DEF IdentityInv, ListIsComplete
<1>10. PasswordChangeEndsSessions'
  BY <1>1, <1>5 DEF IdentityInv, PasswordChangeEndsSessions, SignedIn, OwnersExist
<1> QED
  BY <1>5, <1>7, <1>8, <1>9, <1>10 DEF IdentityInv

(***************************************************************************)
(* A new session that is not marked as raced has the current password, and *)
(* no reset under way has overlooked it.                                   *)
(***************************************************************************)
LEMMA SessionOpens ==
    ASSUME IdentityInv, NEW r \in Requests, NEW op, Commits(r, op),
           NEW s \in Sessions, NEW row \in SessionRow, row.owner \in Emails,
           ~row.raced => /\ row.password = user'[row.owner].password
                         /\ ~ResetUnderWay(row.owner),
           session' = [session EXCEPT ![s] = row],
           \A f \in Emails : user[f].exists =>
                user'[f].exists /\ user'[f].password = user[f].password,
           user'[row.owner].exists
    PROVE  /\ session' \in [Sessions -> SessionRow]
           /\ \A t \in Sessions : session'[t].owner # Nobody =>
                session'[t].owner \in Emails /\ user'[session'[t].owner].exists
           /\ ListIsComplete' /\ PasswordChangeEndsSessions'
<1>1. session' \in [Sessions -> SessionRow]
      /\ \A t \in Sessions : session'[t] = IF t = s THEN row ELSE session[t]
  BY DEF IdentityInv, IdentityTypeOK
<1>2. \A p \in Requests : Held(p)' => Held(p) /\ request'[p] = request[p]
  BY CommitEnds
<1>3. \A t \in Sessions : session'[t].owner # Nobody =>
         session'[t].owner \in Emails /\ user'[session'[t].owner].exists
  BY <1>1 DEF IdentityInv, OwnersExist
<1>4. ListIsComplete'
  <2> SUFFICES ASSUME NEW p \in Requests, Held(p)', request'[p].op = "reset",
                      NEW t \in Sessions, session'[t].owner = request'[p].of,
                      ~session'[t].revoked, ~session'[t].raced
               PROVE  t \in request'[p].list
    BY DEF ListIsComplete
  <2>1. CASE t # s
    BY <1>1, <1>2, <2>1 DEF IdentityInv, ListIsComplete
  <2>2. CASE t = s
    <3>1. request[p].op = "reset" /\ request[p].at = "held" /\ row.owner = request[p].of /\ ~row.raced
      BY <1>1, <1>2, <2>2 DEF Held
    <3> QED
      BY <3>1 DEF ResetUnderWay
  <2> QED
    BY <2>1, <2>2
<1>5. PasswordChangeEndsSessions'
  <2> SUFFICES ASSUME NEW t \in Sessions, SignedIn(t)', ~session'[t].raced
               PROVE  session'[t].password = user'[session'[t].owner].password
    BY DEF PasswordChangeEndsSessions
  <2>1. CASE t # s
    BY <1>1, <2>1 DEF IdentityInv, PasswordChangeEndsSessions, SignedIn, OwnersExist
  <2>2. CASE t = s
    BY <1>1, <2>2
  <2> QED
    BY <2>1, <2>2
<1> QED
  BY <1>1, <1>3, <1>4, <1>5

(***************************************************************************)
(* login commits.                                                          *)
(***************************************************************************)
LEMMA LoginKeeps ==
    ASSUME IdentityInv, NEW r \in Requests, LoginCommits(r)
    PROVE  IdentityInv'
<1> DEFINE q == request[r]
           row == SignedInSession(q.of, q.seen)
<1>1. /\ Commits(r, "login") /\ NewSession(q.of, q.seen)
      /\ user' = user /\ link' = link /\ key' = key /\ identity' = identity /\ operator' = operator
  BY DEF LoginCommits, directory
<1>2. q.of \in Emails /\ q.seen \in Nat /\ user[q.of].exists
  BY <1>1, CommitEnds DEF Grounded
<1>3. PICK s \in Sessions : session' = [session EXCEPT ![s] = row]
  BY <1>1 DEF NewSession
<1>4. /\ row \in SessionRow /\ row.owner = q.of /\ row.password = q.seen
      /\ ~row.raced => user[q.of].password = q.seen /\ ~ResetUnderWay(q.of)
  BY <1>2 DEF SignedInSession, NoSession, SessionRow
<1> HIDE DEF row
<1>5. /\ session' \in [Sessions -> SessionRow]
      /\ \A t \in Sessions : session'[t].owner # Nobody =>
           session'[t].owner \in Emails /\ user'[session'[t].owner].exists
      /\ ListIsComplete' /\ PasswordChangeEndsSessions'
  BY <1>1, <1>2, <1>3, <1>4, SessionOpens
<1>6. /\ request' \in [Requests -> Transaction] /\ overlapped' = overlapped
      /\ \A p \in Requests : request'[p] \in {request[p], Idle}
      /\ \A p \in Requests : Held(p)' => Held(p) /\ request'[p] = request[p]
  BY <1>1, CommitEnds
<1>7. IdentityTypeOK'
  BY <1>1, <1>5, <1>6, Zenon DEF IdentityInv, IdentityTypeOK
<1>8. RequestsGrounded'
  BY <1>1, <1>6, GroundedStays
<1>9. OwnersExist'
  BY <1>1, <1>5 DEF IdentityInv, OwnersExist
<1>10. InsertsAreSole'
  BY <1>1, <1>6 DEF IdentityInv, InsertsAreSole
<1>11. ApprovalGrantsOnce'
  BY <1>1 DEF IdentityInv, ApprovalGrantsOnce
<1>12. OperatorsFollowBootstrap' /\ ChangesAreSingle' /\ OwnerLeftUnlessOverlapped'
  BY <1>1, <1>6, DirectoryStays
<1> QED
  BY <1>5, <1>7, <1>8, <1>9, <1>10, <1>11, <1>12 DEF IdentityInv

(***************************************************************************)
(* An OAuth sign-in commits: for a known identity, for an account it       *)
(* links, or for one it inserts.                                           *)
(***************************************************************************)
LEMMA OAuthKeeps ==
    ASSUME IdentityInv, NEW r \in Requests, OAuthCommits(r)
    PROVE  IdentityInv'
<1> DEFINE q == request[r]
           e == q.of
           row == IF q.seen = "known" THEN user[e] ELSE Linked(e, q.seen)
           opened == IF q.seen = "fresh" THEN [NoSession EXCEPT !.owner = e]
                     ELSE SignedInSession(e, user[e].password)
<1>1. /\ Commits(r, "oauth") /\ user' = [user EXCEPT ![e] = row]
      /\ identity' = [identity EXCEPT ![q.by] = e]
      /\ link' = link /\ key' = key /\ operator' = operator
  BY DEF OAuthCommits, directory
<1>2. q.op = "oauth" /\ e \in Emails /\ (q.seen # "fresh" => user[e].exists)
      /\ (q.seen = "fresh" => Inserts(q))
  BY <1>1, CommitEnds DEF Grounded, Inserts
<1>3. PICK s \in Sessions : session' = [session EXCEPT ![s] = opened]
  BY DEF OAuthCommits
<1>4. user[e] \in UserRow
  BY <1>2 DEF IdentityInv, IdentityTypeOK
<1>5. row \in UserRow /\ row.exists
      /\ \/ Inserts(q) /\ ~row.approved /\ row.grants = 0
         \/ /\ user[e].exists /\ row.password = user[e].password
            /\ row.approved = user[e].approved /\ row.grants = user[e].grants
  <2>1. CASE q.seen = "known"
    BY <1>2, <1>4, <2>1
  <2>2. CASE q.seen = "fresh"
    BY <1>2, <2>2 DEF Linked, NoUser, UserRow
  <2>3. CASE q.seen # "known" /\ q.seen # "fresh"
    <3>1. row = [user[e] EXCEPT !.verified = TRUE]
      BY <2>3 DEF Linked
    <3> QED
      BY <1>2, <1>4, <2>3, <3>1 DEF UserRow
  <2> QED
    BY <2>1, <2>2, <2>3
<1>6. q.seen = "fresh" => row.password = 0
  BY DEF Linked, NoUser
<1> HIDE DEF row
<1>7. /\ user' \in [Emails -> UserRow]
      /\ \A f \in Emails : user'[f] = IF f = e THEN row ELSE user[f]
      /\ \A f \in Emails : user[f].exists => user'[f].exists /\ user'[f].password = user[f].password
      /\ Inserts(q) => ~user[e].exists
      /\ RequestsGrounded' /\ InsertsAreSole' /\ ApprovalGrantsOnce'
      /\ OperatorsFollowBootstrap' /\ ChangesAreSingle' /\ OwnerLeftUnlessOverlapped'
  BY <1>1, <1>2, <1>5, AccountCommits
<1>8. user'[e].exists
  BY <1>2, <1>5, <1>7
<1>9. opened \in SessionRow /\ opened.owner = e
      /\ (~opened.raced => opened.password = user'[e].password /\ ~ResetUnderWay(e))
  <2>1. CASE q.seen = "fresh"
    <3>1. opened \in SessionRow /\ opened.owner = e /\ opened.password = 0
      BY <1>2, <2>1 DEF NoSession, SessionRow
    <3>2. ~ResetUnderWay(e)
      BY <1>2, <1>7, <2>1 DEF ResetUnderWay, IdentityInv, RequestsGrounded, Grounded
    <3> HIDE DEF opened
    <3> QED
      BY <1>2, <1>6, <1>7, <2>1, <3>1, <3>2
  <2>2. CASE q.seen # "fresh"
    <3>1. opened = SignedInSession(e, user[e].password) /\ user[e].password \in Nat
      BY <1>4, <2>2 DEF UserRow
    <3>2. opened \in SessionRow /\ opened.owner = e /\ opened.password = user[e].password
          /\ (~opened.raced => ~ResetUnderWay(e))
      BY <1>2, <3>1 DEF SignedInSession, NoSession, SessionRow
    <3> HIDE DEF opened
    <3> QED
      BY <1>2, <1>7, <2>2, <3>2
  <2> QED
    BY <2>1, <2>2
<1> HIDE DEF opened
<1>10. /\ session' \in [Sessions -> SessionRow]
       /\ \A t \in Sessions : session'[t].owner # Nobody =>
            session'[t].owner \in Emails /\ user'[session'[t].owner].exists
       /\ ListIsComplete' /\ PasswordChangeEndsSessions'
  BY <1>1, <1>2, <1>3, <1>7, <1>8, <1>9, SessionOpens
<1>11. identity' \in [Identities -> Emails \cup {Nobody}]
       /\ \A i \in Identities : identity'[i] = e \/ identity'[i] = identity[i]
  BY <1>1, <1>2 DEF IdentityInv, IdentityTypeOK
<1>12. request' \in [Requests -> Transaction] /\ overlapped' = overlapped
  BY <1>1, CommitEnds
<1>13. IdentityTypeOK'
  BY <1>1, <1>7, <1>10, <1>11, <1>12, Zenon DEF IdentityInv, IdentityTypeOK
<1>14. OwnersExist'
  <2>1. \A i \in Identities : identity'[i] # Nobody =>
          identity'[i] \in Emails /\ user'[identity'[i]].exists
    BY <1>2, <1>7, <1>8, <1>11 DEF IdentityInv, OwnersExist
  <2> QED
    BY <1>1, <1>7, <1>10, <2>1, RowsStayOwned DEF IdentityInv, OwnersExist
<1> QED
  BY <1>7, <1>10, <1>13, <1>14 DEF IdentityInv

(***************************************************************************)
(* reset_password commits: the sessions it listed end, and there were no   *)
(* others but those whose sign-in it raced.                                *)
(***************************************************************************)
LEMMA ResetKeeps ==
    ASSUME IdentityInv, NEW r \in Requests, ResetCommits(r)
    PROVE  IdentityInv'
<1> DEFINE q == request[r]
           e == q.of
<1>1. /\ Commits(r, "reset") /\ user' = [user EXCEPT ![e].password = @ + 1]
      /\ link' = [link EXCEPT ![q.by].used = TRUE]
      /\ session' = [s \in Sessions |->
                      IF s \in q.list THEN [session[s] EXCEPT !.revoked = TRUE] ELSE session[s]]
      /\ key' = key /\ identity' = identity /\ operator' = operator
  BY DEF ResetCommits, directory
<1>2. q.op = "reset" /\ Held(r) /\ e \in Emails /\ user[e].exists
  BY <1>1, CommitEnds DEF Grounded
<1>3. user \in [Emails -> UserRow] /\ session \in [Sessions -> SessionRow]
  BY DEF IdentityInv, IdentityTypeOK
<1>4. /\ user' \in [Emails -> UserRow]
      /\ \A f \in Emails : /\ user'[f].exists = user[f].exists
                           /\ user'[f].approved = user[f].approved
                           /\ user'[f].grants = user[f].grants
                           /\ f # e => user'[f] = user[f]
  <2>1. user[e] \in UserRow /\ user[e].password + 1 \in Nat
    BY <1>2, <1>3 DEF UserRow
  <2> QED
    BY <1>1, <1>2, <1>3, <2>1 DEF UserRow
<1>5. /\ session' \in [Sessions -> SessionRow]
      /\ \A s \in Sessions : /\ session'[s].owner = session[s].owner
                             /\ session'[s].password = session[s].password
                             /\ session'[s].raced = session[s].raced
                             /\ session'[s].expired = session[s].expired
                             /\ session[s].revoked => session'[s].revoked
                             /\ s \in q.list => session'[s].revoked
  BY <1>1, <1>3 DEF SessionRow
<1>6. /\ link' \in [Links -> LinkRow]
      /\ \A l \in Links : link'[l].for = link[l].for /\ link'[l].owner = link[l].owner
  BY <1>1 DEF IdentityInv, IdentityTypeOK, LinkRow
<1>7. /\ request' \in [Requests -> Transaction] /\ overlapped' = overlapped
      /\ \A p \in Requests : request'[p] \in {request[p], Idle}
      /\ \A p \in Requests : Held(p)' => Held(p) /\ request'[p] = request[p]
  BY <1>1, CommitEnds
<1>8. IdentityTypeOK'
  BY <1>1, <1>4, <1>5, <1>6, <1>7, Zenon DEF IdentityInv, IdentityTypeOK
<1>9. RequestsGrounded'
  BY <1>1, <1>4, <1>7, GroundedStays
<1>10. OwnersExist'
  <2>1. OwnersExist /\ \A f \in Emails : user[f].exists => user'[f].exists
    BY <1>4 DEF IdentityInv
  <2>2. \A s \in Sessions : session'[s].owner # Nobody =>
          session'[s].owner \in Emails /\ user'[session'[s].owner].exists
    BY <1>5, <2>1, RowsStayOwned
  <2>3. \A l \in Links : /\ link'[l].for # "none" => link'[l].owner \in Emails
                         /\ link'[l].for = "reset" => user'[link'[l].owner].exists
    BY <1>6, <2>1, RowsStayOwned
  <2>4. \A i \in Identities : identity'[i] # Nobody =>
          identity'[i] \in Emails /\ user'[identity'[i]].exists
    BY <1>1, <2>1, RowsStayOwned
  <2> QED
    BY <2>2, <2>3, <2>4 DEF OwnersExist
<1>11. InsertsAreSole'
  <2>1. \A p \in Requests : Inserts(request[p]) \/ request[p].op = "approve" => request[p].of \in Emails
    BY DEF IdentityInv, RequestsGrounded, Grounded, Inserts
  <2> QED
    BY <1>1, <1>4, <1>7, <2>1 DEF IdentityInv, InsertsAreSole, Inserts
<1>12. ListIsComplete'
  BY <1>5, <1>7 DEF IdentityInv, ListIsComplete
<1>13. PasswordChangeEndsSessions'
  <2> SUFFICES ASSUME NEW s \in Sessions, SignedIn(s)', ~session'[s].raced
               PROVE  session'[s].password = user'[session'[s].owner].password
    BY DEF PasswordChangeEndsSessions
  <2>1. SignedIn(s) /\ ~session[s].raced /\ s \notin q.list
    BY <1>5 DEF SignedIn
  <2>2. session[s].owner # e
    BY <1>2, <2>1 DEF IdentityInv, ListIsComplete, SignedIn
  <2>3. session[s].owner \in Emails
    BY <2>1 DEF SignedIn, IdentityInv, OwnersExist
  <2> QED
    BY <1>4, <1>5, <2>1, <2>2, <2>3 DEF IdentityInv, PasswordChangeEndsSessions
<1>14. ApprovalGrantsOnce'
  BY <1>4 DEF IdentityInv, ApprovalGrantsOnce
<1>15. OperatorsFollowBootstrap' /\ ChangesAreSingle' /\ OwnerLeftUnlessOverlapped'
  BY <1>1, <1>7, DirectoryStays
<1> QED
  BY <1>8, <1>9, <1>10, <1>11, <1>12, <1>13, <1>14, <1>15 DEF IdentityInv

(***************************************************************************)
(* approve_user commits: nobody approved the account since the flush.      *)
(***************************************************************************)
LEMMA ApproveKeeps ==
    ASSUME IdentityInv, NEW r \in Requests, ApproveCommits(r)
    PROVE  IdentityInv'
<1> DEFINE q == request[r]
           e == q.of
<1>1. /\ Commits(r, "approve")
      /\ user' = [user EXCEPT ![e].approved = TRUE, ![e].grants = @ + 1]
      /\ link' = link /\ session' = session /\ key' = key /\ identity' = identity
      /\ operator' = operator
  BY DEF ApproveCommits, directory
<1>2. q.op = "approve" /\ Held(r) /\ e \in Emails
  BY <1>1, CommitEnds DEF Grounded
<1>3. user \in [Emails -> UserRow] /\ user[e] \in UserRow /\ user[e].grants = 0
  BY <1>2 DEF IdentityInv, IdentityTypeOK, InsertsAreSole, ApprovalGrantsOnce
<1>4. /\ user' \in [Emails -> UserRow]
      /\ \A f \in Emails : /\ user'[f].exists = user[f].exists
                           /\ user'[f].password = user[f].password
                           /\ f # e => user'[f] = user[f]
      /\ user'[e].approved /\ user'[e].grants = 1
  <2> DEFINE row == [user[e] EXCEPT !.approved = TRUE, !.grants = 1]
  <2>1. /\ row \in UserRow /\ row.exists = user[e].exists /\ row.password = user[e].password
        /\ row.approved /\ row.grants = 1
    BY <1>3 DEF UserRow
  <2>2. user' = [user EXCEPT ![e] = row]
    <3>1. user' = [user EXCEPT ![e] = [user[e] EXCEPT !.approved = TRUE, !.grants = user[e].grants + 1]]
      BY <1>1, <1>2, <1>3
    <3>2. user[e].grants + 1 = 1
      BY <1>3
    <3> QED
      BY <3>1, <3>2
  <2> HIDE DEF row
  <2> QED
    BY <1>2, <1>3, <2>1, <2>2
<1>5. /\ request' \in [Requests -> Transaction] /\ overlapped' = overlapped
      /\ \A p \in Requests : request'[p] \in {request[p], Idle}
      /\ \A p \in Requests : Held(p)' => p # r /\ Held(p) /\ request'[p] = request[p]
  BY <1>1, CommitEnds
<1>6. IdentityTypeOK'
  BY <1>1, <1>4, <1>5, Zenon DEF IdentityInv, IdentityTypeOK
<1>7. RequestsGrounded'
  BY <1>1, <1>4, <1>5, GroundedStays
<1>8. OwnersExist'
  <2>1. OwnersExist /\ \A f \in Emails : user[f].exists => user'[f].exists
    BY <1>4 DEF IdentityInv
  <2> QED
    BY <1>1, <2>1, RowsStayOwned DEF OwnersExist
<1>9. InsertsAreSole'
  <2>1. \A p \in Requests : Inserts(request[p]) \/ request[p].op = "approve" => request[p].of \in Emails
    BY DEF IdentityInv, RequestsGrounded, Grounded, Inserts
  <2>2. \A p \in Requests : Held(p)' /\ request[p].op = "approve" => request[p].of # e
    BY <1>2, <1>5 DEF IdentityInv, InsertsAreSole
  <2> QED
    BY <1>1, <1>4, <1>5, <2>1, <2>2 DEF IdentityInv, InsertsAreSole, Inserts
<1>10. ListIsComplete'
  BY <1>1, <1>5 DEF IdentityInv, ListIsComplete
<1>11. PasswordChangeEndsSessions'
  BY <1>1, <1>4 DEF IdentityInv, PasswordChangeEndsSessions, SignedIn, OwnersExist
<1>12. ApprovalGrantsOnce'
  BY <1>4 DEF IdentityInv, ApprovalGrantsOnce
<1>13. OperatorsFollowBootstrap' /\ ChangesAreSingle' /\ OwnerLeftUnlessOverlapped'
  BY <1>1, <1>5, DirectoryStays
<1> QED
  BY <1>6, <1>7, <1>8, <1>9, <1>10, <1>11, <1>12, <1>13 DEF IdentityInv

-----------------------------------------------------------------------------
(***************************************************************************)
(* A step on the operators alone: it ends transactions or none, and keeps  *)
(* the accounts.  What is left to show is about operators.                 *)
(***************************************************************************)
LEMMA OperatorsChange ==
    ASSUME IdentityInv, UNCHANGED accounts, overlapped' = overlapped,
           operator' \in [Operators -> OperatorRow], request' \in [Requests -> Transaction],
           \A p \in Requests : request'[p] \in {request[p], Idle},
           \A o \in Operators : operator[o].exists => operator'[o].exists,
           \A p \in Requests : Held(p)' /\ request[p].op = "createOperator" =>
                operator'[request[p].of].exists = operator[request[p].of].exists,
           OperatorsFollowBootstrap', ChangesAreSingle', OwnerLeftUnlessOverlapped'
    PROVE  IdentityInv'
<1>1. user' = user /\ link' = link /\ session' = session /\ key' = key /\ identity' = identity
  BY DEF accounts
<1>2. \A p \in Requests : Held(p)' => Held(p) /\ request'[p] = request[p]
  BY DEF Held, Idle
<1>3. IdentityTypeOK'
  BY <1>1, Zenon DEF IdentityInv, IdentityTypeOK
<1>4. RequestsGrounded'
  BY <1>1, GroundedStays
<1>5. OwnersExist' /\ PasswordChangeEndsSessions' /\ ApprovalGrantsOnce'
  BY <1>1 DEF IdentityInv, OwnersExist, PasswordChangeEndsSessions, SignedIn, ApprovalGrantsOnce
<1>6. InsertsAreSole'
  BY <1>1, <1>2 DEF IdentityInv, InsertsAreSole, Inserts
<1>7. ListIsComplete'
  BY <1>1, <1>2 DEF IdentityInv, ListIsComplete
<1> QED
  BY <1>3, <1>4, <1>5, <1>6, <1>7 DEF IdentityInv

(***************************************************************************)
(* create_operator commits: every owner stays one.                         *)
(***************************************************************************)
LEMMA CreateOperatorKeeps ==
    ASSUME IdentityInv, NEW r \in Requests, CreateOperatorCommits(r)
    PROVE  IdentityInv'
<1> DEFINE q == request[r]
           row == [exists |-> TRUE, role |-> q.seen, revoked |-> FALSE, token |-> "minted"]
<1>1. /\ Commits(r, "createOperator") /\ operator' = [operator EXCEPT ![q.of] = row]
      /\ UNCHANGED accounts
  BY DEF CreateOperatorCommits
<1>2. q.op = "createOperator" /\ Held(r) /\ q.of \in Operators /\ q.seen \in Roles
      /\ operator[Bootstrap].exists
  BY <1>1, CommitEnds DEF Grounded
<1>3. ~operator[q.of].exists
  BY <1>2 DEF IdentityInv, InsertsAreSole
<1>4. /\ operator' \in [Operators -> OperatorRow]
      /\ \A o \in Operators : o # q.of => operator'[o] = operator[o]
      /\ operator'[q.of].exists /\ ~operator'[q.of].revoked
  BY <1>1, <1>2 DEF IdentityInv, IdentityTypeOK, OperatorRow
<1>5. /\ request' \in [Requests -> Transaction] /\ overlapped' = overlapped
      /\ \A p \in Requests : request'[p] \in {request[p], Idle}
      /\ \A p \in Requests : Held(p)' => p # r /\ Held(p) /\ request'[p] = request[p]
  BY <1>1, CommitEnds
<1>6. \A o \in Operators : IsOwner(o) => IsOwner(o)'
  BY <1>3, <1>4 DEF IsOwner, IsOperator
<1>7. \A p \in Requests : Held(p)' /\ request[p].op = "createOperator" =>
        request[p].of \in Operators /\ request[p].of # q.of
  BY <1>2, <1>5 DEF IdentityInv, InsertsAreSole, RequestsGrounded, Grounded
<1>8. OperatorsFollowBootstrap'
  BY <1>2, <1>3, <1>4, IdentityAssumption DEF IdentityInv, OperatorsFollowBootstrap
<1>9. OwnerLeftUnlessOverlapped'
  BY <1>2, <1>5, <1>6 DEF IdentityInv, OwnerLeftUnlessOverlapped, Owners
<1>10. ChangesAreSingle'
  BY <1>5, <1>6 DEF IdentityInv, ChangesAreSingle, OperatorChanges, Demotes, AnotherOwner, Idle
<1> QED
  BY <1>1, <1>3, <1>4, <1>5, <1>7, <1>8, <1>9, <1>10, OperatorsChange

(***************************************************************************)
(* update_operator and revoke_operator commit: as long as no other change  *)
(* was in flight, the owner that was counted before is still there.        *)
(***************************************************************************)
LEMMA ChangeKeeps ==
    ASSUME IdentityInv, NEW r \in Requests, NEW op \in OperatorChanges, Commits(r, op),
           UNCHANGED accounts,
           operator' \in [Operators -> OperatorRow],
           \A o \in Operators : operator'[o].exists = operator[o].exists,
           \A o \in Operators : o # request[r].of => operator'[o] = operator[o],
           ~Demotes(request[r]) => \A o \in Operators : IsOwner(o) => IsOwner(o)'
    PROVE  IdentityInv'
<1> DEFINE q == request[r]
<1>1. q.op \in OperatorChanges /\ q.of \in Operators /\ operator[q.of].exists
  BY CommitEnds DEF Grounded
<1>2. /\ request' \in [Requests -> Transaction] /\ overlapped' = overlapped
      /\ \A p \in Requests : request'[p] = IF p = r THEN Idle ELSE request[p]
  BY CommitEnds
<1>3. Bootstrap \in Operators
  BY IdentityAssumption
<1>4. ~overlapped => \A p \in Requests : request'[p].op \notin OperatorChanges
  BY <1>1, <1>2 DEF IdentityInv, ChangesAreSingle, Idle, OperatorChanges
<1>5. ChangesAreSingle'
  BY <1>2, <1>4 DEF ChangesAreSingle, Demotes, OperatorChanges
<1>6. OwnerLeftUnlessOverlapped'
  <2> SUFFICES ASSUME operator[Bootstrap].exists, ~overlapped PROVE \E o \in Operators : IsOwner(o)'
    BY <1>2, <1>3 DEF OwnerLeftUnlessOverlapped, Owners
  <2>1. CASE Demotes(q)
    <3>1. PICK o \in Operators : o # q.of /\ IsOwner(o)
      BY <2>1 DEF IdentityInv, ChangesAreSingle, AnotherOwner
    <3> QED
      BY <3>1 DEF IsOwner, IsOperator
  <2>2. CASE ~Demotes(q)
    BY <2>2 DEF IdentityInv, OwnerLeftUnlessOverlapped, Owners
  <2> QED
    BY <2>1, <2>2
<1>7. OperatorsFollowBootstrap'
  BY <1>1, <1>3 DEF IdentityInv, OperatorsFollowBootstrap
<1>8. \A p \in Requests : request[p].op = "createOperator" => request[p].of \in Operators
  BY DEF IdentityInv, RequestsGrounded, Grounded
<1> QED
  BY <1>2, <1>5, <1>6, <1>7, <1>8, OperatorsChange

(***************************************************************************)
(* update_operator commits.                                                *)
(***************************************************************************)
LEMMA UpdateKeeps ==
    ASSUME IdentityInv, NEW r \in Requests, UpdateCommits(r)
    PROVE  IdentityInv'
<1> DEFINE q == request[r]
<1>1. /\ Commits(r, "update") /\ operator' = [operator EXCEPT ![q.of].role = q.seen]
      /\ UNCHANGED accounts
  BY DEF UpdateCommits
<1>2. q.op = "update" /\ q.of \in Operators /\ q.seen \in Roles
  BY <1>1, CommitEnds DEF Grounded, OperatorChanges
<1>3. /\ operator' \in [Operators -> OperatorRow]
      /\ \A o \in Operators : /\ operator'[o].exists = operator[o].exists
                              /\ operator'[o].revoked = operator[o].revoked
                              /\ o # q.of => operator'[o] = operator[o]
      /\ operator'[q.of].role = q.seen
  BY <1>1, <1>2 DEF IdentityInv, IdentityTypeOK, OperatorRow
<1>4. ~Demotes(q) => \A o \in Operators : IsOwner(o) => IsOwner(o)'
  BY <1>2, <1>3 DEF Demotes, IsOwner, IsOperator
<1> QED
  BY <1>1, <1>3, <1>4, ChangeKeeps DEF OperatorChanges

(***************************************************************************)
(* revoke_operator commits.                                                *)
(***************************************************************************)
LEMMA RevokeKeeps ==
    ASSUME IdentityInv, NEW r \in Requests, RevokeCommits(r)
    PROVE  IdentityInv'
<1> DEFINE q == request[r]
<1>1. /\ Commits(r, "revoke") /\ operator' = [operator EXCEPT ![q.of].revoked = TRUE]
      /\ UNCHANGED accounts
  BY DEF RevokeCommits
<1>2. q.op = "revoke" /\ Demotes(q)
  BY <1>1, CommitEnds DEF Demotes
<1>3. /\ operator' \in [Operators -> OperatorRow]
      /\ \A o \in Operators : operator'[o].exists = operator[o].exists
      /\ \A o \in Operators : o # q.of => operator'[o] = operator[o]
  BY <1>1 DEF IdentityInv, IdentityTypeOK, OperatorRow
<1> QED
  BY <1>1, <1>2, <1>3, ChangeKeeps DEF OperatorChanges

(***************************************************************************)
(* The server starts: a missing bootstrap operator becomes an owner, an    *)
(* existing one keeps its role.                                            *)
(***************************************************************************)
LEMMA StartupKeeps ==
    ASSUME IdentityInv, Startup
    PROVE  IdentityInv'
<1>1. /\ operator' = [operator EXCEPT ![Bootstrap] = BootstrapRow]
      /\ request' = [r \in Requests |-> Idle]
      /\ UNCHANGED accounts /\ overlapped' = overlapped
  BY DEF Startup
<1>2. Bootstrap \in Operators
  BY IdentityAssumption
<1>3. Idle \in Transaction /\ Idle.op = "idle" /\ Idle.at = "none"
  BY DEF Idle, Transaction, Operations, Nobody
<1>4. operator[Bootstrap] \in OperatorRow /\ operator \in [Operators -> OperatorRow]
  BY <1>2 DEF IdentityInv, IdentityTypeOK
<1>5. /\ BootstrapRow \in OperatorRow /\ BootstrapRow.exists
      /\ operator[Bootstrap].exists => /\ BootstrapRow.role = operator[Bootstrap].role
                                       /\ BootstrapRow.revoked = operator[Bootstrap].revoked
      /\ ~operator[Bootstrap].exists => BootstrapRow.role = "owner" /\ ~BootstrapRow.revoked
  <2>1. CASE operator[Bootstrap].exists
    BY <1>4, <2>1 DEF BootstrapRow, OperatorRow
  <2>2. CASE ~operator[Bootstrap].exists
    BY <2>2 DEF BootstrapRow, OperatorRow, Roles
  <2> QED
    BY <2>1, <2>2
<1>6. /\ operator' \in [Operators -> OperatorRow]
      /\ \A o \in Operators : operator'[o] = IF o = Bootstrap THEN BootstrapRow ELSE operator[o]
  BY <1>1, <1>2, <1>4, <1>5
<1>7. request' \in [Requests -> Transaction] /\ \A p \in Requests : request'[p] = Idle
  BY <1>1, <1>3
<1>8. \A o \in Operators : IsOwner(o) => IsOwner(o)'
  BY <1>5, <1>6 DEF IsOwner, IsOperator
<1>9. OwnerLeftUnlessOverlapped'
  <2>1. CASE operator[Bootstrap].exists
    BY <1>1, <1>8, <2>1 DEF IdentityInv, OwnerLeftUnlessOverlapped, Owners
  <2>2. CASE ~operator[Bootstrap].exists
    <3>1. IsOwner(Bootstrap)'
      BY <1>2, <1>5, <1>6, <2>2 DEF IsOwner, IsOperator
    <3> QED
      BY <1>2, <3>1 DEF OwnerLeftUnlessOverlapped, Owners
  <2> QED
    BY <2>1, <2>2
<1>10. OperatorsFollowBootstrap'
  BY <1>2, <1>5, <1>6 DEF IdentityInv, OperatorsFollowBootstrap
<1>11. ChangesAreSingle' /\ \A p \in Requests : ~Held(p)'
  BY <1>3, <1>7 DEF ChangesAreSingle, OperatorChanges, Demotes, Held
<1> QED
  BY <1>1, <1>5, <1>6, <1>7, <1>9, <1>10, <1>11, OperatorsChange

-----------------------------------------------------------------------------
(* The transaction of a request that has just read.                        *)
Started(op, of, by, seen) ==
    [op |-> op, at |-> "read", of |-> of, by |-> by, seen |-> seen, list |-> {}]

Subjects == Emails \cup Operators \cup Builds \cup {Nobody}
Handles == Links \cup Identities \cup Sessions \cup Keys \cup Operators \cup {Nobody}
Readings == Nat \cup {Nobody, "known", "link", "fresh"} \cup Roles \cup Statuses \cup KeyRow

(***************************************************************************)
(* Any request but a change of operators starts.                           *)
(***************************************************************************)
LEMMA RequestStarts ==
    ASSUME IdentityInv, NEW r \in Requests, NEW op \in Operations \ OperatorChanges,
           NEW of \in Subjects, NEW by \in Handles, NEW seen \in Readings,
           Read(r, op, of, by, seen), UNCHANGED <<accounts, directory>>,
           Grounded(Started(op, of, by, seen))
    PROVE  IdentityInv'
<1> DEFINE q == Started(op, of, by, seen)
<1>1. q \in Transaction
  BY DEF Started, Transaction, Subjects, Handles, Readings
<1>2. ~Demotes(q)
  BY DEF Demotes, Started, OperatorChanges
<1> QED
  BY <1>1, <1>2, ReadKeeps DEF Started

(***************************************************************************)
(* What accounts, links and identities are when a request reads them.      *)
(***************************************************************************)
LEMMA OwnedRows ==
    ASSUME IdentityInv
    PROVE  /\ \A e \in Emails : user[e].password \in Nat
           /\ \A l \in Links : link[l].for # "none" => link[l].owner \in Emails
           /\ \A l \in Links : link[l].for = "reset" => user[link[l].owner].exists
           /\ \A s \in Sessions : session[s].owner # Nobody => session[s].owner \in Emails
           /\ \A i \in Identities : identity[i] # Nobody =>
                identity[i] \in Emails /\ user[identity[i]].exists
           /\ \A k \in Keys : key[k] \in KeyRow /\ key[k].owner \in Emails \cup {Nobody}
           /\ \A o \in Operators : operator[o].exists => operator[Bootstrap].exists
<1>1. \A e \in Emails : user[e].password \in Nat
  BY DEF IdentityInv, IdentityTypeOK, UserRow
<1>2. \A k \in Keys : key[k] \in KeyRow
  BY DEF IdentityInv, IdentityTypeOK
<1>3. \A k \in Keys : key[k].owner \in Emails \cup {Nobody}
  BY <1>2 DEF KeyRow
<1> QED
  BY <1>1, <1>2, <1>3 DEF IdentityInv, OwnersExist, OperatorsFollowBootstrap

(***************************************************************************)
(* Every request that reads an account, a link or an identity.             *)
(***************************************************************************)
LEMMA AccountReads ==
    ASSUME IdentityInv, NEW r \in Requests,
           \/ \E e \in Emails : Signup(r, e) \/ Resend(r, e) \/ RequestReset(r, e) \/ Login(r, e)
           \/ \E l \in Links : VerifyEmail(r, l) \/ ResetPassword(r, l)
           \/ \E i \in Identities, e \in Emails : OAuthCallback(r, i, e)
    PROVE  IdentityInv'
<1>1. ASSUME NEW e \in Emails,
             Signup(r, e) \/ Resend(r, e) \/ RequestReset(r, e) \/ Login(r, e)
      PROVE  IdentityInv'
  <2>1. CASE Signup(r, e)
    <3>1. Grounded(Started("signup", e, Nobody, Nobody))
      BY DEF Grounded, Started, OperatorChanges
    <3> QED
      BY <2>1, <3>1, RequestStarts DEF Signup, Operations, OperatorChanges, Subjects, Handles, Readings
  <2>2. CASE Resend(r, e)
    <3>1. Grounded(Started("resend", e, Nobody, Nobody))
      BY DEF Grounded, Started, OperatorChanges
    <3> QED
      BY <2>2, <3>1, RequestStarts DEF Resend, Operations, OperatorChanges, Subjects, Handles, Readings
  <2>3. CASE RequestReset(r, e)
    <3>1. Grounded(Started("requestReset", e, Nobody, Nobody))
      BY <2>3 DEF RequestReset, Grounded, Started, OperatorChanges
    <3> QED
      BY <2>3, <3>1, RequestStarts
      DEF RequestReset, Operations, OperatorChanges, Subjects, Handles, Readings
  <2>4. CASE Login(r, e)
    <3>1. user[e].password \in Nat
      BY OwnedRows
    <3>2. Grounded(Started("login", e, Nobody, user[e].password))
      BY <2>4, <3>1 DEF Login, Grounded, Started, OperatorChanges
    <3> QED
      BY <2>4, <3>1, <3>2, RequestStarts DEF Login, Operations, OperatorChanges, Subjects, Handles, Readings
  <2> QED
    BY <1>1, <2>1, <2>2, <2>3, <2>4
<1>2. ASSUME NEW l \in Links, VerifyEmail(r, l) \/ ResetPassword(r, l)
      PROVE  IdentityInv'
  <2>1. CASE VerifyEmail(r, l)
    <3>1. link[l].owner \in Emails
      BY <2>1, OwnedRows DEF VerifyEmail, Usable
    <3>2. Grounded(Started("verify", link[l].owner, l, Nobody))
      BY <3>1 DEF Grounded, Started, OperatorChanges
    <3> QED
      BY <2>1, <3>1, <3>2, RequestStarts
      DEF VerifyEmail, Operations, OperatorChanges, Subjects, Handles, Readings
  <2>2. CASE ResetPassword(r, l)
    <3>1. link[l].owner \in Emails /\ user[link[l].owner].exists
      BY <2>2, OwnedRows DEF ResetPassword, Usable
    <3>2. Grounded(Started("reset", link[l].owner, l, Nobody))
      BY <3>1 DEF Grounded, Started, OperatorChanges
    <3> QED
      BY <2>2, <3>1, <3>2, RequestStarts
      DEF ResetPassword, Operations, OperatorChanges, Subjects, Handles, Readings
  <2> QED
    BY <1>2, <2>1, <2>2
<1>3. ASSUME NEW i \in Identities, NEW e \in Emails, OAuthCallback(r, i, e)
      PROVE  IdentityInv'
  <2>1. CASE identity[i] # Nobody /\ Read(r, "oauth", identity[i], i, "known")
    <3>1. identity[i] \in Emails /\ user[identity[i]].exists
      BY <2>1, OwnedRows
    <3>2. Grounded(Started("oauth", identity[i], i, "known"))
      BY <3>1 DEF Grounded, Started, OperatorChanges
    <3> QED
      BY <1>3, <2>1, <3>1, <3>2, RequestStarts
      DEF OAuthCallback, Operations, OperatorChanges, Subjects, Handles, Readings
  <2>2. CASE user[e].exists /\ Read(r, "oauth", e, i, "link")
    <3>1. Grounded(Started("oauth", e, i, "link"))
      BY <2>2 DEF Grounded, Started, OperatorChanges
    <3> QED
      BY <1>3, <2>2, <3>1, RequestStarts
      DEF OAuthCallback, Operations, OperatorChanges, Subjects, Handles, Readings
  <2>3. CASE Read(r, "oauth", e, i, "fresh")
    <3>1. Grounded(Started("oauth", e, i, "fresh"))
      BY DEF Grounded, Started, OperatorChanges
    <3> QED
      BY <1>3, <2>3, <3>1, RequestStarts
      DEF OAuthCallback, Operations, OperatorChanges, Subjects, Handles, Readings
  <2> QED
    BY <1>3, <2>1, <2>2, <2>3 DEF OAuthCallback
<1> QED
  BY <1>1, <1>2, <1>3

(***************************************************************************)
(* Every request that reads a session or a key.                            *)
(***************************************************************************)
LEMMA KeyReads ==
    ASSUME IdentityInv, NEW r \in Requests,
           \/ \E s \in Sessions : Logout(r, s) \/ CreateKey(r, s)
           \/ \E s \in Sessions, k \in Keys : RevokeKey(r, s, k)
           \/ \E k \in Keys : UseKey(r, k)
    PROVE  IdentityInv'
<1>1. ASSUME NEW s \in Sessions, Logout(r, s) PROVE IdentityInv'
  <2>1. session[s].owner \in Emails
    BY <1>1, OwnedRows DEF Logout
  <2>2. Grounded(Started("logout", session[s].owner, s, Nobody))
    BY DEF Grounded, Started, OperatorChanges
  <2> QED
    BY <1>1, <2>1, <2>2, RequestStarts DEF Logout, Operations, OperatorChanges, Subjects, Handles, Readings
<1>2. ASSUME NEW s \in Sessions, CreateKey(r, s) PROVE IdentityInv'
  <2>1. session[s].owner \in Emails
    BY <1>2, OwnedRows DEF CreateKey, SignedIn
  <2>2. Grounded(Started("createKey", session[s].owner, s, Nobody))
    BY <2>1 DEF Grounded, Started, OperatorChanges
  <2> QED
    BY <1>2, <2>1, <2>2, RequestStarts
    DEF CreateKey, Operations, OperatorChanges, Subjects, Handles, Readings
<1>3. ASSUME NEW s \in Sessions, NEW k \in Keys, RevokeKey(r, s, k) PROVE IdentityInv'
  <2>1. session[s].owner \in Emails /\ key[k] \in KeyRow
    BY <1>3, OwnedRows DEF RevokeKey, SignedIn
  <2>2. Grounded(Started("revokeKey", session[s].owner, k, key[k]))
    BY DEF Grounded, Started, OperatorChanges
  <2> QED
    BY <1>3, <2>1, <2>2, RequestStarts
    DEF RevokeKey, Operations, OperatorChanges, Subjects, Handles, Readings
<1>4. ASSUME NEW k \in Keys, UseKey(r, k) PROVE IdentityInv'
  <2>1. key[k].owner \in Emails \cup {Nobody} /\ key[k] \in KeyRow
    BY OwnedRows
  <2>2. Grounded(Started("useKey", key[k].owner, k, key[k]))
    BY DEF Grounded, Started, OperatorChanges
  <2> QED
    BY <1>4, <2>1, <2>2, RequestStarts DEF UseKey, Operations, OperatorChanges, Subjects, Handles, Readings
<1> QED
  BY <1>1, <1>2, <1>3, <1>4

(***************************************************************************)
(* A change that takes ownership away found another owner: the count is    *)
(* over one when the target is an owner, and the requester is an owner.    *)
(***************************************************************************)
LEMMA DemotionLeavesAnother ==
    ASSUME NEW o \in Operators, IsOwner(o), NEW target \in Operators, MayDemote(target)
    PROVE  AnotherOwner(target)
<1>1. CASE ~IsOwner(target)
  BY <1>1 DEF AnotherOwner
<1>2. CASE IsOwner(target)
  <2> SUFFICES ASSUME ~AnotherOwner(target) PROVE FALSE
    OBVIOUS
  <2>1. Owners = {target}
    BY <1>2 DEF Owners, AnotherOwner
  <2>2. Cardinality({target}) = 1
    BY FS_Singleton
  <2>3. Cardinality(Owners) > 1
    BY <1>2 DEF MayDemote
  <2> QED
    BY <2>1, <2>2, <2>3
<1> QED
  BY <1>1, <1>2

(***************************************************************************)
(* A change of operators starts.                                           *)
(***************************************************************************)
LEMMA ChangeStarts ==
    ASSUME IdentityInv, NEW r \in Requests, NEW op \in OperatorChanges,
           NEW of \in Operators, NEW by \in Operators, NEW seen \in Roles \cup {Nobody},
           Read(r, op, of, by, seen), UNCHANGED <<accounts, directory>>,
           operator[of].exists, op = "update" => seen \in Roles,
           AnotherOwner(of) \/ (op = "update" /\ seen = "owner")
    PROVE  IdentityInv'
<1> DEFINE q == Started(op, of, by, seen)
<1>1. q \in Transaction
  BY DEF Started, Transaction, Operations, OperatorChanges
<1>2. Demotes(q) => AnotherOwner(of)
  BY DEF Demotes, Started
<1>3. Grounded(q)
  BY DEF Grounded, Started, OperatorChanges
<1> QED
  BY <1>1, <1>2, <1>3, ReadKeeps DEF Started

(***************************************************************************)
(* Every request an operator makes.                                        *)
(***************************************************************************)
LEMMA OperatorReads ==
    ASSUME IdentityInv, NEW r \in Requests, NEW o \in Operators,
           \/ \E e \in Emails : Approve(r, o, e)
           \/ \E t \in Operators :
                \/ RevokeOperator(r, o, t) \/ RotateToken(r, o, t)
                \/ \E role \in Roles : CreateOperator(r, o, t, role) \/ UpdateOperator(r, o, t, role)
           \/ \E b \in Builds :
                \/ DropBuild(r, o, b)
                \/ \E status \in Statuses : AddBuild(r, o, b, status) \/ SetBuild(r, o, b, status)
    PROVE  IdentityInv'
<1>1. ASSUME NEW e \in Emails, Approve(r, o, e) PROVE IdentityInv'
  <2>1. Grounded(Started("approve", e, o, Nobody))
    BY DEF Grounded, Started, OperatorChanges
  <2> QED
    BY <1>1, <2>1, RequestStarts DEF Approve, Operations, OperatorChanges, Subjects, Handles, Readings
<1>2. ASSUME NEW t \in Operators, RevokeOperator(r, o, t) PROVE IdentityInv'
  <2>1. AnotherOwner(t)
    BY <1>2, DemotionLeavesAnother DEF RevokeOperator
  <2> QED
    BY <1>2, <2>1, ChangeStarts DEF RevokeOperator, OperatorChanges
<1>3. ASSUME NEW t \in Operators, RotateToken(r, o, t) PROVE IdentityInv'
  <2>1. Grounded(Started("rotate", t, o, Nobody))
    BY DEF Grounded, Started, OperatorChanges
  <2> QED
    BY <1>3, <2>1, RequestStarts DEF RotateToken, Operations, OperatorChanges, Subjects, Handles, Readings
<1>4. ASSUME NEW t \in Operators, NEW role \in Roles, CreateOperator(r, o, t, role) PROVE IdentityInv'
  <2>1. operator[Bootstrap].exists
    BY <1>4, OwnedRows DEF CreateOperator, IsOwner, IsOperator
  <2>2. Grounded(Started("createOperator", t, o, role))
    BY <2>1 DEF Grounded, Started, OperatorChanges
  <2> QED
    BY <1>4, <2>2, RequestStarts
    DEF CreateOperator, Operations, OperatorChanges, Subjects, Handles, Readings
<1>5. ASSUME NEW t \in Operators, NEW role \in Roles, UpdateOperator(r, o, t, role) PROVE IdentityInv'
  <2>1. AnotherOwner(t) \/ role = "owner"
    BY <1>5, DemotionLeavesAnother DEF UpdateOperator
  <2> QED
    BY <1>5, <2>1, ChangeStarts DEF UpdateOperator, OperatorChanges
<1>6. ASSUME NEW b \in Builds, DropBuild(r, o, b) PROVE IdentityInv'
  <2>1. Grounded(Started("dropBuild", b, o, Nobody))
    BY DEF Grounded, Started, OperatorChanges
  <2> QED
    BY <1>6, <2>1, RequestStarts DEF DropBuild, Operations, OperatorChanges, Subjects, Handles, Readings
<1>7. ASSUME NEW b \in Builds, NEW status \in Statuses,
             AddBuild(r, o, b, status) \/ SetBuild(r, o, b, status)
      PROVE  IdentityInv'
  <2>1. \A op \in {"addBuild", "setBuild"} : Grounded(Started(op, b, o, status))
    BY DEF Grounded, Started, OperatorChanges
  <2>2. CASE AddBuild(r, o, b, status)
    BY <2>1, <2>2, RequestStarts DEF AddBuild, Operations, OperatorChanges, Subjects, Handles, Readings
  <2>3. CASE SetBuild(r, o, b, status)
    BY <2>1, <2>3, RequestStarts DEF SetBuild, Operations, OperatorChanges, Subjects, Handles, Readings
  <2> QED
    BY <1>7, <2>2, <2>3
<1> QED
  BY <1>1, <1>2, <1>3, <1>4, <1>5, <1>6, <1>7

-----------------------------------------------------------------------------
(***************************************************************************)
(* The steps that change neither who exists nor a password, an approval,   *)
(* a role or the owner of a row.                                           *)
(***************************************************************************)
QuietStep(r) ==
    \/ LinkCommits(r) \/ VerifyCommits(r) \/ LogoutCommits(r)
    \/ CreateKeyCommits(r) \/ RevokeKeyCommits(r) \/ UseKeyCommits(r)
    \/ RotateCommits(r) \/ BuildCommits(r) \/ DropBuildCommits(r) \/ Rollback(r)

\* Every quiet step keeps the invariant.
LEMMA QuietStepKeeps ==
    ASSUME IdentityInv, NEW r \in Requests, QuietStep(r)
    PROVE  IdentityInv'
<1>1. /\ request' \in [Requests -> Transaction] /\ overlapped' = overlapped
      /\ \A p \in Requests : request'[p] \in {request[p], Idle}
  <2>1. request' = [request EXCEPT ![r] = Idle] /\ overlapped' = overlapped
    BY DEF QuietStep, LinkCommits, VerifyCommits, LogoutCommits, CreateKeyCommits, RevokeKeyCommits,
           UseKeyCommits, RotateCommits, BuildCommits, DropBuildCommits, Rollback, Commits
  <2>2. Idle \in Transaction
    BY DEF Idle, Transaction, Operations, Nobody
  <2> QED
    BY <2>1, <2>2 DEF IdentityInv, IdentityTypeOK
<1>2. /\ user' \in [Emails -> UserRow]
      /\ \A e \in Emails : /\ user'[e].exists = user[e].exists
                           /\ user'[e].password = user[e].password
                           /\ user'[e].approved = user[e].approved
                           /\ user'[e].grants = user[e].grants
  <2>1. user \in [Emails -> UserRow]
    BY DEF IdentityInv, IdentityTypeOK
  <2>2. user' = user \/ user' = [user EXCEPT ![request[r].of].verified = TRUE]
    BY DEF QuietStep, LinkCommits, VerifyCommits, LogoutCommits, CreateKeyCommits, RevokeKeyCommits,
           UseKeyCommits, RotateCommits, BuildCommits, DropBuildCommits, Rollback, accounts
  <2>3. CASE user' = [user EXCEPT ![request[r].of].verified = TRUE]
    BY <2>1, <2>3 DEF UserRow
  <2> QED
    BY <2>1, <2>2, <2>3
<1>3. /\ session' \in [Sessions -> SessionRow]
      /\ \A s \in Sessions : /\ session'[s].owner = session[s].owner
                             /\ session'[s].password = session[s].password
                             /\ session'[s].raced = session[s].raced
                             /\ session[s].revoked => session'[s].revoked
                             /\ session[s].expired => session'[s].expired
  <2>1. session \in [Sessions -> SessionRow]
    BY DEF IdentityInv, IdentityTypeOK
  <2>2. session' = session \/ session' = [session EXCEPT ![request[r].by].revoked = TRUE]
    BY DEF QuietStep, LinkCommits, VerifyCommits, LogoutCommits, CreateKeyCommits, RevokeKeyCommits,
           UseKeyCommits, RotateCommits, BuildCommits, DropBuildCommits, Rollback, accounts
  <2>3. CASE session' = [session EXCEPT ![request[r].by].revoked = TRUE]
    BY <2>1, <2>3 DEF SessionRow
  <2> QED
    BY <2>1, <2>2, <2>3
<1>4. /\ link' \in [Links -> LinkRow]
      /\ \A l \in Links : link'[l].for = link[l].for /\ link'[l].owner = link[l].owner
  <2>1. link \in [Links -> LinkRow]
    BY DEF IdentityInv, IdentityTypeOK
  <2>2. \/ link' = link
        \/ link' = [link EXCEPT ![request[r].by].live = TRUE]
        \/ link' = [link EXCEPT ![request[r].by].used = TRUE]
    BY DEF QuietStep, LinkCommits, VerifyCommits, LogoutCommits, CreateKeyCommits, RevokeKeyCommits,
           UseKeyCommits, RotateCommits, BuildCommits, DropBuildCommits, Rollback, accounts
  <2>3. CASE link' = [link EXCEPT ![request[r].by].live = TRUE]
    BY <2>1, <2>3 DEF LinkRow
  <2>4. CASE link' = [link EXCEPT ![request[r].by].used = TRUE]
    BY <2>1, <2>4 DEF LinkRow
  <2> QED
    BY <2>1, <2>2, <2>3, <2>4
<1>5. /\ operator' \in [Operators -> OperatorRow]
      /\ \A o \in Operators : /\ operator'[o].exists = operator[o].exists
                              /\ operator'[o].role = operator[o].role
                              /\ operator'[o].revoked = operator[o].revoked
  <2>1. operator \in [Operators -> OperatorRow]
    BY DEF IdentityInv, IdentityTypeOK
  <2>2. operator' = operator \/ operator' = [operator EXCEPT ![request[r].of].token = "minted"]
    BY DEF QuietStep, LinkCommits, VerifyCommits, LogoutCommits, CreateKeyCommits, RevokeKeyCommits,
           UseKeyCommits, RotateCommits, BuildCommits, DropBuildCommits, Rollback, directory
  <2> QED
    BY <2>1, <2>2 DEF OperatorRow
<1>6. key' \in [Keys -> KeyRow] /\ identity' = identity
  <2>1. key \in [Keys -> KeyRow]
    BY DEF IdentityInv, IdentityTypeOK
  <2>2. key' = key => key' \in [Keys -> KeyRow]
    BY <2>1
  <2>3. ASSUME NEW k, key' = [key EXCEPT ![k].revoked = TRUE] PROVE key' \in [Keys -> KeyRow]
    BY <2>1, <2>3 DEF KeyRow
  <2>4. ASSUME NEW k, key' = [key EXCEPT ![k] = [key[k] EXCEPT !.used = TRUE]]
        PROVE  key' \in [Keys -> KeyRow]
    BY <2>1, <2>4 DEF KeyRow
  <2>5. ASSUME CreateKeyCommits(r) PROVE key' \in [Keys -> KeyRow]
    <3>1. request[r].of \in Emails
      BY <2>5, CommitEnds DEF CreateKeyCommits, Grounded
    <3>2. PICK k \in Keys : key' = [key EXCEPT ![k].owner = request[r].of]
      BY <2>5 DEF CreateKeyCommits
    <3>3. [key[k] EXCEPT !.owner = request[r].of] \in KeyRow
      BY <2>1, <3>1 DEF KeyRow
    <3> QED
      BY <2>1, <3>2, <3>3
  <2>6. \/ key' = key
        \/ key' = [key EXCEPT ![request[r].by].revoked = TRUE]
        \/ key' = [key EXCEPT ![request[r].by] = [key[request[r].by] EXCEPT !.used = TRUE]]
        \/ CreateKeyCommits(r)
    BY DEF QuietStep, LinkCommits, VerifyCommits, LogoutCommits, RevokeKeyCommits, KeyRowUsed,
           UseKeyCommits, RotateCommits, BuildCommits, DropBuildCommits, Rollback, accounts
  <2>7. identity' = identity
    BY DEF QuietStep, LinkCommits, VerifyCommits, LogoutCommits, CreateKeyCommits, RevokeKeyCommits,
           UseKeyCommits, RotateCommits, BuildCommits, DropBuildCommits, Rollback, accounts
  <2> QED
    BY <2>2, <2>3, <2>4, <2>5, <2>6, <2>7
<1>7. IdentityTypeOK'
  BY <1>1, <1>2, <1>3, <1>4, <1>5, <1>6, Zenon DEF IdentityInv, IdentityTypeOK
<1> QED
  BY <1>1, <1>2, <1>3, <1>4, <1>5, <1>6, <1>7, QuietKeeps

(***************************************************************************)
(* Time passes, or nothing happens.                                        *)
(***************************************************************************)
LEMMA TimeKeeps ==
    ASSUME IdentityInv,
           \/ \E l \in Links : LinkExpires(l)
           \/ \E s \in Sessions : SessionExpires(s)
           \/ UNCHANGED vars
    PROVE  IdentityInv'
<1>1. /\ user' = user /\ key' = key /\ identity' = identity /\ operator' = operator
      /\ request' = request /\ overlapped' = overlapped
  BY DEF LinkExpires, SessionExpires, vars, directory
<1>2. /\ session' \in [Sessions -> SessionRow]
      /\ \A s \in Sessions : /\ session'[s].owner = session[s].owner
                             /\ session'[s].password = session[s].password
                             /\ session'[s].raced = session[s].raced
                             /\ session[s].revoked => session'[s].revoked
                             /\ session[s].expired => session'[s].expired
  <2>1. session \in [Sessions -> SessionRow]
    BY DEF IdentityInv, IdentityTypeOK
  <2>2. session' = session \/ \E s \in Sessions : session' = [session EXCEPT ![s].expired = TRUE]
    BY DEF LinkExpires, SessionExpires, vars
  <2>3. ASSUME NEW t \in Sessions, session' = [session EXCEPT ![t].expired = TRUE] PROVE <1>2!1 /\ <1>2!2
    BY <2>1, <2>3 DEF SessionRow
  <2> QED
    BY <2>1, <2>2, <2>3
<1>3. /\ link' \in [Links -> LinkRow]
      /\ \A l \in Links : link'[l].for = link[l].for /\ link'[l].owner = link[l].owner
  <2>1. link \in [Links -> LinkRow]
    BY DEF IdentityInv, IdentityTypeOK
  <2>2. link' = link \/ \E l \in Links : link' = [link EXCEPT ![l].expired = TRUE]
    BY DEF LinkExpires, SessionExpires, vars
  <2>3. ASSUME NEW k \in Links, link' = [link EXCEPT ![k].expired = TRUE] PROVE <1>3!1 /\ <1>3!2
    BY <2>1, <2>3 DEF LinkRow
  <2> QED
    BY <2>1, <2>2, <2>3
<1>4. IdentityTypeOK'
  BY <1>1, <1>2, <1>3, Zenon DEF IdentityInv, IdentityTypeOK
<1> QED
  BY <1>1, <1>2, <1>3, <1>4, QuietKeeps

(***************************************************************************)
(* Every step of the system keeps the invariant.                           *)
(***************************************************************************)
LEMMA IdentityStepInv == IdentityInv /\ [IdentityNext]_vars => IdentityInv'
<1> SUFFICES ASSUME IdentityInv, [IdentityNext]_vars PROVE IdentityInv'
  OBVIOUS
<1>1. CASE Startup
  BY <1>1, StartupKeeps
<1>2. ASSUME NEW r \in Requests, Write(r) \/ Rollback(r) PROVE IdentityInv'
  BY <1>2, WriteKeeps, QuietStepKeeps DEF QuietStep
<1>3. ASSUME NEW r \in Requests, AccountStep(r) PROVE IdentityInv'
  BY <1>3, AccountReads, SignupKeeps, ResetKeeps, LoginKeeps, OAuthKeeps, QuietStepKeeps
  DEF AccountStep, QuietStep
<1>4. ASSUME NEW r \in Requests, KeyStep(r) PROVE IdentityInv'
  BY <1>4, KeyReads, QuietStepKeeps DEF KeyStep, QuietStep
<1>5. ASSUME NEW r \in Requests, ApprovalStep(r) PROVE IdentityInv'
  BY <1>5, OperatorReads, ApproveKeeps DEF ApprovalStep
<1>6. ASSUME NEW r \in Requests, OperatorStep(r) PROVE IdentityInv'
  BY <1>6, OperatorReads, CreateOperatorKeeps, UpdateKeeps, RevokeKeeps, QuietStepKeeps
  DEF OperatorStep, QuietStep
<1>7. ASSUME NEW r \in Requests, BuildStep(r) PROVE IdentityInv'
  BY <1>7, OperatorReads, QuietStepKeeps DEF BuildStep, QuietStep
<1>8. CASE \/ \E l \in Links : LinkExpires(l)
           \/ \E s \in Sessions : SessionExpires(s)
           \/ UNCHANGED vars
  BY <1>8, TimeKeeps
<1> QED
  BY <1>1, <1>2, <1>3, <1>4, <1>5, <1>6, <1>7, <1>8 DEF IdentityNext

(***************************************************************************)
(* The inductive invariant holds in every behaviour.                       *)
(***************************************************************************)
THEOREM IdentityInvariant == IdentitySpec => []IdentityInv
  BY IdentityInitInv, IdentityStepInv, PTL DEF IdentitySpec

(***************************************************************************)
(* reset_password ends every session opened before it, except those whose  *)
(* sign-in was in flight with it.                                          *)
(***************************************************************************)
THEOREM ResetEndsSessions == IdentitySpec => []PasswordChangeEndsSessions
<1>1. IdentityInv => PasswordChangeEndsSessions
  BY DEF IdentityInv
<1> QED
  BY <1>1, IdentityInvariant, PTL

(***************************************************************************)
(* approve_user grants the initial credit once, with the approval.         *)
(***************************************************************************)
THEOREM CreditGrantedOnce == IdentitySpec => []ApprovalGrantsOnce
<1>1. IdentityInv => ApprovalGrantsOnce
  BY DEF IdentityInv
<1> QED
  BY <1>1, IdentityInvariant, PTL

(***************************************************************************)
(* update_operator and revoke_operator leave an owner unless two changes   *)
(* were in flight together.                                                *)
(***************************************************************************)
THEOREM AnOwnerIsLeft == IdentitySpec => []OwnerLeftUnlessOverlapped
<1>1. IdentityInv => OwnerLeftUnlessOverlapped
  BY DEF IdentityInv
<1> QED
  BY <1>1, IdentityInvariant, PTL

-----------------------------------------------------------------------------
(***************************************************************************)
(* The steps that write an account, a session, a key or an operator.       *)
(***************************************************************************)
LEMMA WhoWrites ==
    ASSUME [IdentityNext]_vars
    PROVE  /\ user' = user \/ \E r \in Requests :
                SignupCommits(r) \/ VerifyCommits(r) \/ ResetCommits(r) \/ OAuthCommits(r) \/ ApproveCommits(r)
           /\ session' = session
              \/ (\E r \in Requests : ResetCommits(r) \/ LoginCommits(r) \/ OAuthCommits(r) \/ LogoutCommits(r))
              \/ \E s \in Sessions : SessionExpires(s)
           /\ key' = key \/ \E r \in Requests : CreateKeyCommits(r) \/ RevokeKeyCommits(r) \/ UseKeyCommits(r)
           /\ operator' = operator \/ Startup \/ \E r \in Requests :
                CreateOperatorCommits(r) \/ UpdateCommits(r) \/ RevokeCommits(r) \/ RotateCommits(r)
<1>1. CASE Startup
  BY <1>1 DEF Startup, accounts
<1>2. ASSUME NEW r \in Requests, Write(r) \/ Rollback(r)
      PROVE  user' = user /\ session' = session /\ key' = key /\ operator' = operator
  BY <1>2 DEF Write, Rollback, accounts, directory
<1>3. ASSUME NEW r \in Requests, AccountStep(r)
      PROVE  /\ key' = key /\ operator' = operator
             /\ user' = user \/ SignupCommits(r) \/ VerifyCommits(r) \/ ResetCommits(r) \/ OAuthCommits(r)
             /\ session' = session \/ ResetCommits(r) \/ LoginCommits(r) \/ OAuthCommits(r)
  BY <1>3 DEF AccountStep, Signup, Resend, RequestReset, Login, VerifyEmail, ResetPassword, OAuthCallback,
              SignupCommits, LinkCommits, VerifyCommits, ResetCommits, LoginCommits, OAuthCommits,
              accounts, directory
<1>4. ASSUME NEW r \in Requests, KeyStep(r)
      PROVE  /\ user' = user /\ operator' = operator
             /\ session' = session \/ LogoutCommits(r)
             /\ key' = key \/ CreateKeyCommits(r) \/ RevokeKeyCommits(r) \/ UseKeyCommits(r)
  BY <1>4 DEF KeyStep, Logout, CreateKey, RevokeKey, UseKey, LogoutCommits, CreateKeyCommits,
              RevokeKeyCommits, UseKeyCommits, accounts, directory
<1>5. ASSUME NEW r \in Requests, ApprovalStep(r)
      PROVE  /\ session' = session /\ key' = key /\ operator' = operator
             /\ user' = user \/ ApproveCommits(r)
  BY <1>5 DEF ApprovalStep, Approve, ApproveCommits, accounts, directory
<1>6. ASSUME NEW r \in Requests, OperatorStep(r)
      PROVE  /\ user' = user /\ session' = session /\ key' = key
             /\ operator' = operator \/ CreateOperatorCommits(r) \/ UpdateCommits(r)
                \/ RevokeCommits(r) \/ RotateCommits(r)
  BY <1>6 DEF OperatorStep, RevokeOperator, RotateToken, CreateOperator, UpdateOperator,
              CreateOperatorCommits, UpdateCommits, RevokeCommits, RotateCommits, accounts, directory
<1>7. ASSUME NEW r \in Requests, BuildStep(r)
      PROVE  user' = user /\ session' = session /\ key' = key /\ operator' = operator
  BY <1>7 DEF BuildStep, DropBuild, AddBuild, SetBuild, BuildCommits, DropBuildCommits,
              accounts, directory
<1>8. ASSUME \/ \E l \in Links : LinkExpires(l)
             \/ \E s \in Sessions : SessionExpires(s)
             \/ UNCHANGED vars
      PROVE  /\ user' = user /\ key' = key /\ operator' = operator
             /\ session' = session \/ \E s \in Sessions : SessionExpires(s)
  BY <1>8 DEF LinkExpires, SessionExpires, vars, directory
<1> QED
  BY <1>1, <1>2, <1>3, <1>4, <1>5, <1>6, <1>7, <1>8 DEF IdentityNext

(***************************************************************************)
(* What no step may do to an account that exists.                          *)
(***************************************************************************)
LEMMA AccountStays ==
    ASSUME IdentityInv, [IdentityNext]_vars, NEW e \in Emails, user[e].exists
    PROVE  /\ user'[e].exists
           /\ user[e].verified => user'[e].verified
           /\ user[e].approved => user'[e].approved
           /\ user'[e].grants >= user[e].grants
           /\ user'[e].password /= user[e].password =>
                \E r \in Requests : request[r].op = "reset" /\ request[r].of = e
<1> DEFINE Stays == /\ user'[e].exists
                    /\ user[e].verified => user'[e].verified
                    /\ user[e].approved => user'[e].approved
                    /\ user'[e].grants >= user[e].grants
                    /\ user'[e].password /= user[e].password =>
                         \E r \in Requests : request[r].op = "reset" /\ request[r].of = e
<1>1. user \in [Emails -> UserRow] /\ user[e] \in UserRow
  BY DEF IdentityInv, IdentityTypeOK
<1>2. user[e].grants \in Nat /\ user[e].grants >= user[e].grants
  BY <1>1 DEF UserRow
<1>3. CASE user'[e] = user[e]
  BY <1>2, <1>3
<1>4. ASSUME NEW r \in Requests, SignupCommits(r) PROVE user'[e] = user[e]
  <2>1. ~user[request[r].of].exists
    BY <1>4, CommitEnds DEF SignupCommits, IdentityInv, InsertsAreSole, Inserts
  <2> QED
    BY <1>1, <1>4, <2>1 DEF SignupCommits
<1>5. ASSUME NEW r \in Requests, VerifyCommits(r), user'[e] # user[e] PROVE Stays
  <2>1. user' = [user EXCEPT ![request[r].of].verified = TRUE]
    BY <1>5 DEF VerifyCommits
  <2>2. user'[e] = [user[e] EXCEPT !.verified = TRUE]
    BY <1>1, <1>5, <2>1
  <2>3. /\ user'[e].exists = user[e].exists /\ user'[e].password = user[e].password
        /\ user'[e].approved = user[e].approved /\ user'[e].grants = user[e].grants
        /\ user'[e].verified
    BY <1>1, <2>2 DEF UserRow
  <2> QED
    BY <1>2, <2>3
<1>6. ASSUME NEW r \in Requests, ResetCommits(r), user'[e] # user[e] PROVE Stays
  <2>1. user' = [user EXCEPT ![request[r].of].password = @ + 1] /\ request[r].op = "reset"
    BY <1>6 DEF ResetCommits, Commits
  <2>2. request[r].of = e /\ user'[e] = [user[e] EXCEPT !.password = @ + 1]
    BY <1>1, <1>6, <2>1
  <2> QED
    BY <1>1, <1>2, <2>1, <2>2 DEF UserRow
<1>7. ASSUME NEW r \in Requests, OAuthCommits(r), user'[e] # user[e] PROVE Stays
  <2> DEFINE q == request[r]
             row == IF q.seen = "known" THEN user[q.of] ELSE Linked(q.of, q.seen)
  <2>1. user' = [user EXCEPT ![q.of] = row]
    BY <1>7 DEF OAuthCommits
  <2>2. q.of = e /\ user'[e] = row
    BY <1>1, <1>7, <2>1
  <2>3. q.op = "oauth" /\ q.seen # "fresh"
    <3>1. q.op = "oauth" /\ Held(r)
      BY <1>7, CommitEnds DEF OAuthCommits
    <3> QED
      BY <2>2, <3>1 DEF IdentityInv, InsertsAreSole, Inserts
  <2>4. row = [user[e] EXCEPT !.verified = TRUE]
    BY <1>7, <2>2, <2>3 DEF Linked
  <2>5. /\ row.exists = user[e].exists /\ row.password = user[e].password
        /\ row.approved = user[e].approved /\ row.grants = user[e].grants
        /\ row.verified
    BY <1>1, <2>4 DEF UserRow
  <2> HIDE DEF row
  <2> QED
    BY <1>2, <2>2, <2>5
<1>8. ASSUME NEW r \in Requests, ApproveCommits(r), user'[e] # user[e] PROVE Stays
  <2>1. user' = [user EXCEPT ![request[r].of].approved = TRUE, ![request[r].of].grants = @ + 1]
    BY <1>8 DEF ApproveCommits
  <2>2. user'[e] = [user[e] EXCEPT !.approved = TRUE, !.grants = @ + 1]
    BY <1>1, <1>8, <2>1
  <2>3. user[e].grants + 1 >= user[e].grants
    BY <1>2
  <2>4. /\ user'[e].exists = user[e].exists /\ user'[e].password = user[e].password
        /\ user'[e].verified = user[e].verified /\ user'[e].approved
        /\ user'[e].grants = user[e].grants + 1
    BY <1>1, <2>2 DEF UserRow
  <2> QED
    BY <2>3, <2>4
<1> QED
  BY <1>3, <1>4, <1>5, <1>6, <1>7, <1>8, WhoWrites

(***************************************************************************)
(* signup and find_or_link_user never replace an account, and nothing      *)
(* takes back its verification, approval, credit or, but for a reset, its  *)
(* password.                                                               *)
(***************************************************************************)
THEOREM AccountsStay == IdentitySpec => ExistingAccountStays
<1>1. IdentityInv /\ [IdentityNext]_vars =>
        [\A e \in Emails : user[e].exists =>
            /\ user'[e].exists
            /\ user[e].verified => user'[e].verified
            /\ user[e].approved => user'[e].approved
            /\ user'[e].grants >= user[e].grants
            /\ user'[e].password /= user[e].password =>
                  \E r \in Requests : request[r].op = "reset" /\ request[r].of = e]_vars
  BY AccountStays
<1> QED
  BY <1>1, IdentityInvariant, PTL DEF IdentitySpec, ExistingAccountStays

(***************************************************************************)
(* What no step may do to a revoked session, key or operator.              *)
(***************************************************************************)
LEMMA RevokedStays ==
    ASSUME IdentityInv, [IdentityNext]_vars
    PROVE  /\ \A s \in Sessions : session[s].revoked => session'[s].revoked
           /\ \A k \in Keys : key[k].revoked => key'[k].revoked
           /\ \A o \in Operators : operator[o].revoked => operator'[o].revoked
<1>1. ASSUME NEW s \in Sessions, session[s].revoked PROVE session'[s].revoked
  <2>1. session \in [Sessions -> SessionRow] /\ session[s] \in SessionRow
    BY DEF IdentityInv, IdentityTypeOK
  <2>2. session[s] # NoSession
    BY <1>1 DEF NoSession
  <2>3. ASSUME NEW r \in Requests, ResetCommits(r) PROVE session'[s].revoked
    <3>1. session'[s] = IF s \in request[r].list THEN [session[s] EXCEPT !.revoked = TRUE] ELSE session[s]
      BY <2>3 DEF ResetCommits
    <3> QED
      BY <1>1, <2>1, <3>1 DEF SessionRow
  <2>4. ASSUME NEW r \in Requests, LoginCommits(r) \/ OAuthCommits(r) PROVE session'[s] = session[s]
    <3>1. ASSUME NEW x PROVE \A t \in Sessions : session[t] = NoSession =>
                               [session EXCEPT ![t] = x][s] = session[s]
      BY <2>1, <2>2
    <3>2. CASE LoginCommits(r)
      BY <3>1, <3>2 DEF LoginCommits, NewSession
    <3>3. CASE OAuthCommits(r)
      <4> DEFINE q == request[r]
                 opened == IF q.seen = "fresh" THEN [NoSession EXCEPT !.owner = q.of]
                           ELSE SignedInSession(q.of, user[q.of].password)
      <4>1. \E t \in Sessions : session[t] = NoSession /\ session' = [session EXCEPT ![t] = opened]
        BY <3>3 DEF OAuthCommits
      <4> HIDE DEF opened
      <4> QED
        BY <3>1, <4>1
    <3> QED
      BY <2>4, <3>2, <3>3
  <2>5. ASSUME NEW r \in Requests, LogoutCommits(r) PROVE session'[s].revoked
    <3>1. session' = [session EXCEPT ![request[r].by].revoked = TRUE]
      BY <2>5 DEF LogoutCommits
    <3> QED
      BY <1>1, <2>1, <3>1 DEF SessionRow
  <2>6. ASSUME NEW t \in Sessions, SessionExpires(t) PROVE session'[s].revoked
    <3>1. session' = [session EXCEPT ![t].expired = TRUE]
      BY <2>6 DEF SessionExpires
    <3> QED
      BY <1>1, <2>1, <3>1 DEF SessionRow
  <2> QED
    BY <1>1, <2>3, <2>4, <2>5, <2>6, WhoWrites
<1>2. ASSUME NEW k \in Keys, key[k].revoked PROVE key'[k].revoked
  <2>1. key \in [Keys -> KeyRow] /\ key[k] \in KeyRow
    BY DEF IdentityInv, IdentityTypeOK
  <2>2. ASSUME NEW r \in Requests, CreateKeyCommits(r) PROVE key'[k].revoked
    <3>1. PICK j \in Keys : key[j] = NoKey /\ key' = [key EXCEPT ![j].owner = request[r].of]
      BY <2>2 DEF CreateKeyCommits
    <3>2. k # j
      BY <1>2, <3>1 DEF NoKey
    <3> QED
      BY <1>2, <2>1, <3>1, <3>2
  <2>3. ASSUME NEW r \in Requests, RevokeKeyCommits(r) PROVE key'[k].revoked
    <3>1. key' = [key EXCEPT ![request[r].by].revoked = TRUE]
      BY <2>3 DEF RevokeKeyCommits
    <3> QED
      BY <1>2, <2>1, <3>1 DEF KeyRow
  <2>4. ASSUME NEW r \in Requests, UseKeyCommits(r) PROVE key'[k].revoked
    <3>1. key' = [key EXCEPT ![request[r].by] = [key[request[r].by] EXCEPT !.used = TRUE]]
      BY <2>4 DEF UseKeyCommits, KeyRowUsed
    <3>2. key'[k] = key[k] \/ key'[k] = [key[k] EXCEPT !.used = TRUE]
      BY <2>1, <3>1
    <3> QED
      BY <1>2, <2>1, <3>2 DEF KeyRow
  <2> QED
    BY <1>2, <2>2, <2>3, <2>4, WhoWrites
<1>3. ASSUME NEW o \in Operators, operator[o].revoked PROVE operator'[o].revoked
  <2>1. operator \in [Operators -> OperatorRow] /\ operator[o] \in OperatorRow
    BY DEF IdentityInv, IdentityTypeOK
  <2>2. operator[o].exists
    BY <1>3 DEF IdentityInv, OperatorsFollowBootstrap
  <2>3. ASSUME Startup PROVE operator'[o].revoked
    <3>1. operator' = [operator EXCEPT ![Bootstrap] = BootstrapRow]
      BY <2>3 DEF Startup
    <3>2. o = Bootstrap => BootstrapRow = [operator[o] EXCEPT !.token = "configured"]
      BY <2>2 DEF BootstrapRow
    <3> QED
      BY <1>3, <2>1, <3>1, <3>2 DEF OperatorRow
  <2>4. ASSUME NEW r \in Requests, CreateOperatorCommits(r) PROVE operator'[o] = operator[o]
    <3>1. ~operator[request[r].of].exists
      BY <2>4, CommitEnds DEF CreateOperatorCommits, IdentityInv, InsertsAreSole
    <3> QED
      BY <2>1, <2>2, <2>4, <3>1 DEF CreateOperatorCommits
  <2>5. ASSUME NEW r \in Requests, UpdateCommits(r) PROVE operator'[o].revoked
    <3>1. operator' = [operator EXCEPT ![request[r].of].role = request[r].seen]
      BY <2>5 DEF UpdateCommits
    <3> QED
      BY <1>3, <2>1, <3>1 DEF OperatorRow
  <2>6. ASSUME NEW r \in Requests, RevokeCommits(r) PROVE operator'[o].revoked
    <3>1. operator' = [operator EXCEPT ![request[r].of].revoked = TRUE]
      BY <2>6 DEF RevokeCommits
    <3> QED
      BY <1>3, <2>1, <3>1 DEF OperatorRow
  <2>7. ASSUME NEW r \in Requests, RotateCommits(r) PROVE operator'[o].revoked
    <3>1. operator' = [operator EXCEPT ![request[r].of].token = "minted"]
      BY <2>7 DEF RotateCommits
    <3> QED
      BY <1>3, <2>1, <3>1 DEF OperatorRow
  <2> QED
    BY <1>3, <2>3, <2>4, <2>5, <2>6, <2>7, WhoWrites
<1> QED
  BY <1>1, <1>2, <1>3

(***************************************************************************)
(* A revoked session, API key or operator never works again, whatever      *)
(* requests that read the row before the revocation write afterwards.      *)
(***************************************************************************)
THEOREM RevokedForGood == IdentitySpec => RevocationIsFinal
<1>1. IdentityInv /\ [IdentityNext]_vars =>
        [/\ \A s \in Sessions : session[s].revoked => session'[s].revoked
         /\ \A k \in Keys : key[k].revoked => key'[k].revoked
         /\ \A o \in Operators : operator[o].revoked => operator'[o].revoked]_vars
  BY RevokedStays
<1> QED
  BY <1>1, IdentityInvariant, PTL DEF IdentitySpec, RevocationIsFinal
=============================================================================
