---------------------------- MODULE AuthSessions ----------------------------
(***************************************************************************)
(* The authentication service (application/authentication.py) behind its   *)
(* routes (web/routes/auth.py): the sessions, the second factor and the    *)
(* linked identities of one user, under concurrent requests.               *)
(*                                                                         *)
(* Each request runs in one READ COMMITTED transaction and takes no lock   *)
(* before it writes: it decides on the rows it loaded.  An UPDATE sets only *)
(* the columns the request assigned, so all its writes are one step at     *)
(* COMMIT.  Refresh and CSRF tokens always change together and are one     *)
(* number per session; they are delivered with the answer, even when       *)
(* COMMIT then fails.                                                      *)
(***************************************************************************)
EXTENDS Naturals, FiniteSets

CONSTANTS
  Procs,          \* concurrent requests
  Sessions,       \* session ids
  NoSession,
  Role,           \* the user's role in the workspace
  Users,          \* accounts an external identity may be linked to
  NoUser,
  Identities,     \* pairs (provider, subject)
  CodeCount,      \* recovery codes per enrolment (8 in the code)
  MaxTokens,      \* bound: refresh tokens issued per session
  MaxEnrolments,  \* bound: enrolments that commit
  MaxVersion      \* bound: session versions

ASSUME BoundsAssumption ==
  /\ CodeCount \in Nat /\ MaxTokens \in Nat
  /\ MaxEnrolments \in Nat /\ MaxVersion \in Nat \ {0}

ASSUME NamesAssumption ==
  /\ NoSession \notin Sessions /\ NoUser \notin Users
  /\ Role \in {"admin", "operator", "viewer"}

VARIABLES
  user,       \* the row of the user
  sess,       \* [Sessions -> SessionRow]
  expired,    \* the sessions past expires_at
  cred,       \* the MFA credential
  enrolments, \* TOTP secrets and code lists stored so far
  oidc,       \* [Identities -> Users \cup {NoUser}]
  pc,         \* [Procs -> Steps]: what a request does next
  tx,         \* [Procs -> Request]: what it was called with and loaded
  issued,     \* [Sessions -> Nat]: refresh tokens delivered so far
  access,     \* the access tokens delivered so far
  ended,      \* history: sessions some request has revoked
  confirmed,  \* history: an enrolment has been confirmed
  uses,       \* history: the MFA codes accepted, each with the token it was traded for
  managed     \* history: sessions that performed an administrative action

db == <<user, sess, expired, cred, oidc>>
history == <<ended, confirmed, uses, managed>>
vars == <<user, sess, expired, cred, oidc, pc, tx, enrolments, issued, access,
          ended, confirmed, uses, managed>>

-----------------------------------------------------------------------------
(* Rows *)

UserRow == [is_active : BOOLEAN, session_version : 1..MaxVersion]

SessionRow == [exists : BOOLEAN, refresh : 0..MaxTokens,
               mfa_verified : BOOLEAN, revoked : BOOLEAN]

NoRow == [exists |-> FALSE, refresh |-> 0, mfa_verified |-> FALSE, revoked |-> FALSE]

\* A code of the n-th enrolment: index 0 is what its TOTP secret generates.
Code == [secret : 1..MaxEnrolments, index : 0..CodeCount]

RecoveryCodes(n) == {c \in Code : c.secret = n /\ c.index # 0}

\* secret 0: there is no credential.
Credential == [secret : 0..MaxEnrolments, codes : SUBSET Code, confirmed : BOOLEAN]

NoCredential == [secret |-> 0, codes |-> {}, confirmed |-> FALSE]

AccessToken == [session : Sessions, version : 1..MaxVersion, mfa : BOOLEAN]

\* op: the call; version, cred: columns it loaded; code: the MFA code presented;
\* known, rows: the sessions when revoke_all began, and those its UPDATE found.
Request == [op : {"none", "login", "refresh", "serve", "enroll", "confirm", "verify",
                  "revoke_all", "link"},
            session : Sessions \cup {NoSession}, version : 1..MaxVersion,
            mfa : BOOLEAN, cred : Credential, code : Code \cup {NoSession},
            known : SUBSET Sessions, rows : SUBSET Sessions,
            identity : Identities \cup {NoUser},
            owner : Users \cup {NoUser}]

NoRequest == [op |-> "none", session |-> NoSession, version |-> 1, mfa |-> FALSE,
              cred |-> NoCredential, code |-> NoSession, known |-> {}, rows |-> {},
              identity |-> NoUser, owner |-> NoUser]

Steps == {"idle", "load_user", "auth_user", "admitted", "bulk", "replay", "commit"}

TypeOK ==
  /\ user \in UserRow /\ sess \in [Sessions -> SessionRow] /\ expired \subseteq Sessions
  /\ cred \in Credential /\ oidc \in [Identities -> Users \cup {NoUser}]
  /\ pc \in [Procs -> Steps] /\ tx \in [Procs -> Request]
  /\ enrolments \in 0..MaxEnrolments
  /\ issued \in [Sessions -> 0..MaxTokens] /\ access \subseteq AccessToken
  /\ ended \subseteq Sessions /\ confirmed \in BOOLEAN /\ managed \subseteq Sessions
  /\ uses \subseteq [code : Code, session : Sessions, token : 1..MaxTokens]

\* bootstrap_platform: an active user, a workspace and the membership.
Init ==
  /\ user = [is_active |-> TRUE, session_version |-> 1]
  /\ sess = [s \in Sessions |-> NoRow] /\ expired = {}
  /\ cred = NoCredential /\ oidc = [i \in Identities |-> NoUser]
  /\ pc = [p \in Procs |-> "idle"] /\ tx = [p \in Procs |-> NoRequest]
  /\ issued = [s \in Sessions |-> 0] /\ access = {} /\ enrolments = 0
  /\ ended = {} /\ confirmed = FALSE /\ uses = {} /\ managed = {}

-----------------------------------------------------------------------------
(* The transaction of a request *)

Goto(p, step, request) ==
  /\ pc' = [pc EXCEPT ![p] = step]
  /\ tx' = [tx EXCEPT ![p] = request]

Return(p) == Goto(p, "idle", NoRequest)

\* Any exception, a deadlock among the writes included, rolls everything back.
rollback(p) ==
  /\ pc[p] # "idle"
  /\ Return(p)
  /\ UNCHANGED <<db, enrolments, issued, access, history>>

\* The refresh token and the access token of the answer reach the client.
deliver(s, version, mfa) ==
  /\ issued[s] < MaxTokens
  /\ issued' = [issued EXCEPT ![s] = @ + 1]
  /\ access' = access \cup {[session |-> s, version |-> version, mfa |-> mfa]}

\* The loaded row of a session is neither revoked nor expired.
Live(s) == sess[s].exists /\ ~sess[s].revoked /\ s \notin expired

-----------------------------------------------------------------------------
(* Sign-in and rotation *)

\* A denied login writes nothing: its audit event is rolled back with it.
login(p, s) ==
  /\ pc[p] = "idle" /\ user.is_active
  /\ issued[s] = 0 /\ ~sess[s].exists /\ \A q \in Procs : tx[q].session # s
  /\ Goto(p, "commit", [NoRequest EXCEPT !.op = "login", !.session = s,
                                         !.version = user.session_version])
  /\ UNCHANGED <<db, enrolments, issued, access, history>>

login_commit(p) ==
  LET s == tx[p].session
  IN  /\ pc[p] = "commit" /\ tx[p].op = "login"
      /\ deliver(s, tx[p].version, FALSE)
      /\ sess' = [sess EXCEPT ![s] = [NoRow EXCEPT !.exists = TRUE, !.refresh = issued'[s]]]
      /\ Return(p)
      /\ UNCHANGED <<user, expired, cred, oidc, enrolments, history>>

\* The session row is loaded and the token presented is the stored one...
refresh(p, s, token) ==
  /\ pc[p] = "idle" /\ Live(s)
  /\ token = sess[s].refresh
  /\ Goto(p, "load_user", [NoRequest EXCEPT !.op = "refresh", !.session = s,
                                            !.mfa = sess[s].mfa_verified])
  /\ UNCHANGED <<db, enrolments, issued, access, history>>

\* ... or it is not, and the session is revoked with a COMMIT of its own.
refresh_replay(p, s, token) ==
  /\ pc[p] = "idle" /\ Live(s)
  /\ token # sess[s].refresh
  /\ Goto(p, "replay", [NoRequest EXCEPT !.op = "refresh", !.session = s])
  /\ UNCHANGED <<db, enrolments, issued, access, history>>

replay_commit(p) ==
  /\ pc[p] = "replay"
  /\ sess' = [sess EXCEPT ![tx[p].session].revoked = TRUE]
  /\ ended' = ended \cup {tx[p].session}
  /\ Return(p)
  /\ UNCHANGED <<user, expired, cred, oidc, enrolments, issued, access, confirmed, uses, managed>>

\* The user's row is loaded.  For an inactive user the revocation is assigned
\* and then rolled back by the exception (rollback).
refresh_user(p) ==
  /\ pc[p] = "load_user" /\ tx[p].op = "refresh" /\ user.is_active
  /\ Goto(p, "commit", [tx[p] EXCEPT !.version = user.session_version])
  /\ UNCHANGED <<db, enrolments, issued, access, history>>

\* Mutant of RotatedRow: the row is written back as it was loaded.
RotatedRow_whole(row, token) == [row EXCEPT !.refresh = token, !.revoked = FALSE]

\* _rotate writes the new token and nothing else of the row.
RotatedRow(row, token) == [row EXCEPT !.refresh = token]

refresh_commit(p) ==
  LET s == tx[p].session
  IN  /\ pc[p] = "commit" /\ tx[p].op = "refresh"
      /\ deliver(s, tx[p].version, tx[p].mfa)
      /\ sess' = [sess EXCEPT ![s] = RotatedRow(@, issued'[s])]
      /\ Return(p)
      /\ UNCHANGED <<user, expired, cred, oidc, enrolments, history>>

\* COMMIT fails after the tokens were sent to the client.
commit_fails(p) ==
  /\ pc[p] = "commit" /\ tx[p].op \in {"login", "refresh", "confirm", "verify"}
  /\ deliver(tx[p].session, tx[p].version, tx[p].mfa)
  /\ Return(p)
  /\ UNCHANGED <<db, enrolments, history>>

-----------------------------------------------------------------------------
(* Protected requests *)

\* authenticate_access_token loads the session, then the user.
authenticate(p, a) ==
  /\ pc[p] = "idle" /\ Live(a.session) /\ a.mfa = sess[a.session].mfa_verified
  /\ Goto(p, "auth_user", [NoRequest EXCEPT !.op = "serve", !.session = a.session,
                                            !.version = a.version, !.mfa = a.mfa])
  /\ UNCHANGED <<db, enrolments, issued, access, history>>

authenticate_user(p) ==
  /\ pc[p] = "auth_user"
  /\ user.is_active /\ tx[p].version = user.session_version
  /\ Goto(p, "admitted", tx[p])
  /\ UNCHANGED <<db, enrolments, issued, access, history>>

ManagePermissions == {"manage_users", "manage_workspace", "manage_secrets", "manage_budget"}

ROLE_PERMISSIONS(role) ==
  CASE role = "admin"    -> ManagePermissions \cup {"start_job", "cancel_job",
                             "view_results", "export_results", "view_audit_log"}
    [] role = "operator" -> {"start_job", "cancel_job", "view_results", "export_results"}
    [] role = "viewer"   -> {"view_results", "view_audit_log"}

\* Mutant of require_permission: the role is enough.
require_permission_role_only(permission, mfa_verified) ==
  permission \in ROLE_PERMISSIONS(Role)

\* An administrator's administrative actions need the second factor.
require_permission(permission, mfa_verified) ==
  /\ permission \in ROLE_PERMISSIONS(Role)
  /\ Role = "admin" /\ permission \in ManagePermissions => mfa_verified

\* Any other route: authorized by the context the request was admitted with.
serve(p, permission) ==
  /\ pc[p] = "admitted"
  /\ require_permission(permission, tx[p].mfa)
  /\ managed' = managed \cup (IF permission \in ManagePermissions THEN {tx[p].session}
                                                                  ELSE {})
  /\ Return(p)
  /\ UNCHANGED <<db, enrolments, issued, access, ended, confirmed, uses>>

logout(p) ==
  /\ pc[p] = "admitted"
  /\ sess' = [sess EXCEPT ![tx[p].session].revoked = TRUE]
  /\ ended' = ended \cup {tx[p].session}
  /\ Return(p)
  /\ UNCHANGED <<user, expired, cred, oidc, enrolments, issued, access, confirmed, uses, managed>>

-----------------------------------------------------------------------------
(* The second factor *)

\* A confirmed credential is replaced only with the second factor.
begin_mfa_enrollment(p) ==
  /\ pc[p] = "admitted"
  /\ cred.confirmed => tx[p].mfa
  /\ Goto(p, "commit", [tx[p] EXCEPT !.op = "enroll", !.cred = cred])
  /\ UNCHANGED <<db, enrolments, issued, access, history>>

\* INSERT refuses a second row; UPDATE sets confirmed_at only if it was loaded.
EnrolledRow(loaded, n) ==
  [secret |-> n, codes |-> RecoveryCodes(n), confirmed |-> cred.confirmed /\ ~loaded.confirmed]

enroll_commit(p) ==
  /\ pc[p] = "commit" /\ tx[p].op = "enroll"
  /\ tx[p].cred.secret = 0 => cred.secret = 0
  /\ enrolments < MaxEnrolments
  /\ enrolments' = enrolments + 1
  /\ cred' = EnrolledRow(tx[p].cred, enrolments')
  /\ Return(p)
  /\ UNCHANGED <<user, sess, expired, oidc, issued, access, history>>

\* _verified_mfa_credential: a TOTP code of the stored secret, or a listed
\* recovery code, which leaves the list.
accepts(credential, code) ==
  /\ credential.secret # 0
  /\ (code.index = 0 /\ code.secret = credential.secret) \/ code \in credential.codes

\* Mutant of present_code: verify_mfa takes a credential nobody confirmed.
present_code_unconfirmed(p, op, code) ==
  /\ pc[p] = "admitted"
  /\ accepts(cred, code)
  /\ Goto(p, "load_user", [tx[p] EXCEPT !.op = op, !.cred = cred, !.code = code, !.mfa = TRUE])
  /\ UNCHANGED <<db, enrolments, issued, access, history>>

\* confirm_mfa and verify_mfa load the credential; the session, whose last_seen_at is
\* not flushed yet, is still the object loaded when the request was admitted, ...
present_code(p, op, code) ==
  /\ pc[p] = "admitted"
  /\ accepts(cred, code)
  /\ op = "verify" => cred.confirmed
  /\ Goto(p, "load_user", [tx[p] EXCEPT !.op = op, !.cred = cred, !.code = code, !.mfa = TRUE])
  /\ UNCHANGED <<db, enrolments, issued, access, history>>

\* ... while the user, whom nothing refers to any more, is loaded again: the tokens
\* carry the version of now, not the one the request was admitted with.
present_code_user(p) ==
  /\ pc[p] = "load_user" /\ tx[p].op \in {"confirm", "verify"}
  /\ Goto(p, "commit", [tx[p] EXCEPT !.version = user.session_version])
  /\ UNCHANGED <<db, enrolments, issued, access, history>>

\* The list is written whole, without the code, when a recovery code was used.
CodesAfter(loaded, code) ==
  IF code \in loaded.codes THEN loaded.codes \ {code} ELSE cred.codes

present_code_commit(p) ==
  LET s == tx[p].session
      first == tx[p].op = "confirm"
  IN  /\ pc[p] = "commit" /\ tx[p].op \in {"confirm", "verify"}
      /\ deliver(s, tx[p].version, TRUE)
      /\ cred' = [cred EXCEPT !.codes = CodesAfter(tx[p].cred, tx[p].code),
                              !.confirmed = @ \/ first]
      /\ sess' = [sess EXCEPT ![s] = [RotatedRow(@, issued'[s]) EXCEPT !.mfa_verified = TRUE]]
      /\ confirmed' = (confirmed \/ first)
      /\ uses' = uses \cup {[code |-> tx[p].code, session |-> s, token |-> issued'[s]]}
      /\ Return(p)
      /\ UNCHANGED <<user, expired, oidc, enrolments, ended, managed>>

-----------------------------------------------------------------------------
(* Operations of the service without a route *)

\* revoke_all loads the user, ...
revoke_all(p) ==
  /\ pc[p] = "idle" /\ user.session_version < MaxVersion
  /\ Goto(p, "bulk", [NoRequest EXCEPT !.op = "revoke_all", !.version = user.session_version,
                                       !.known = {s \in Sessions : sess[s].exists}])
  /\ UNCHANGED <<db, enrolments, issued, access, history>>

\* ... updates the sessions that are committed and not revoked, ...
revoke_all_bulk(p) ==
  /\ pc[p] = "bulk"
  /\ Goto(p, "commit", [tx[p] EXCEPT !.rows = {s \in Sessions :
                                                 sess[s].exists /\ ~sess[s].revoked}])
  /\ UNCHANGED <<db, enrolments, issued, access, history>>

\* Mutant of revoke_all_commit: the version is raised twice.
revoke_all_commit_twice(p) ==
  /\ pc[p] = "commit" /\ tx[p].op = "revoke_all"
  /\ user' = [user EXCEPT !.session_version = tx[p].version + 2]
  /\ sess' = [s \in Sessions |-> IF s \in tx[p].rows THEN [sess[s] EXCEPT !.revoked = TRUE]
                                                     ELSE sess[s]]
  /\ ended' = ended \cup tx[p].known
  /\ Return(p)
  /\ UNCHANGED <<expired, cred, oidc, enrolments, issued, access, confirmed, uses, managed>>

\* ... and commits them with the version after the one it loaded.
revoke_all_commit(p) ==
  /\ pc[p] = "commit" /\ tx[p].op = "revoke_all"
  /\ user' = [user EXCEPT !.session_version = tx[p].version + 1]
  /\ sess' = [s \in Sessions |-> IF s \in tx[p].rows THEN [sess[s] EXCEPT !.revoked = TRUE]
                                                     ELSE sess[s]]
  /\ ended' = ended \cup tx[p].known
  /\ Return(p)
  /\ UNCHANGED <<expired, cred, oidc, enrolments, issued, access, confirmed, uses, managed>>

\* map_oidc_identity refuses an identity that belongs to another account...
map_oidc_identity(p, i, u) ==
  /\ pc[p] = "idle" /\ oidc[i] = NoUser
  /\ Goto(p, "commit", [NoRequest EXCEPT !.op = "link", !.identity = i, !.owner = u])
  /\ UNCHANGED <<db, enrolments, issued, access, history>>

\* Mutant of Unlinked: the table has no unique constraint.
Unlinked_unchecked(i) == TRUE

\* ... and inserts under the unique constraint on (provider, subject).
Unlinked(i) == oidc[i] = NoUser

map_oidc_commit(p) ==
  /\ pc[p] = "commit" /\ tx[p].op = "link"
  /\ Unlinked(tx[p].identity)
  /\ oidc' = [oidc EXCEPT ![tx[p].identity] = tx[p].owner]
  /\ Return(p)
  /\ UNCHANGED <<user, sess, expired, cred, enrolments, issued, access, history>>

-----------------------------------------------------------------------------
(* The world outside *)

\* expires_at passes.
session_expires(s) ==
  /\ sess[s].exists /\ s \notin expired
  /\ expired' = expired \cup {s}
  /\ UNCHANGED <<user, sess, cred, oidc, pc, tx, enrolments, issued, access, history>>

\* An operator deactivates the account in the database.
deactivate ==
  /\ user.is_active
  /\ user' = [user EXCEPT !.is_active = FALSE]
  /\ UNCHANGED <<sess, expired, cred, oidc, pc, tx, enrolments, issued, access, history>>

Permissions == ROLE_PERMISSIONS("admin")

Next ==
  \/ \E p \in Procs :
       \/ rollback(p) \/ commit_fails(p)
       \/ login_commit(p) \/ refresh_user(p) \/ refresh_commit(p) \/ replay_commit(p)
       \/ authenticate_user(p) \/ logout(p)
       \/ begin_mfa_enrollment(p) \/ enroll_commit(p)
       \/ present_code_user(p) \/ present_code_commit(p)
       \/ revoke_all(p) \/ revoke_all_bulk(p) \/ revoke_all_commit(p) \/ map_oidc_commit(p)
       \/ \E s \in Sessions : login(p, s)
       \/ \E s \in Sessions, t \in 1..MaxTokens :
            t <= issued[s] /\ (refresh(p, s, t) \/ refresh_replay(p, s, t))
       \/ \E a \in access : authenticate(p, a)
       \/ \E permission \in Permissions : serve(p, permission)
       \/ \E op \in {"confirm", "verify"}, code \in Code : present_code(p, op, code)
       \/ \E i \in Identities, u \in Users : map_oidc_identity(p, i, u)
  \/ \E s \in Sessions : session_expires(s)
  \/ deactivate

Spec == Init /\ [][Next]_vars

-----------------------------------------------------------------------------
(* Properties *)

\* The plan's "revoca immediata": once a logout, a replay or a revoke_all has
\* committed, no request of a session it was about passes the check of its
\* session any more, whatever rotated, confirmed or renewed that session at the
\* same time.
RevocationImmediate ==
  [][\A p \in Procs : pc[p] = "idle" /\ pc'[p] # "idle" => tx'[p].session \notin ended]_vars

\* The plan's "MFA TOTP obbligatoria per admin prima delle azioni
\* amministrative": only sessions that traded an MFA code, after a credential was
\* confirmed, have performed an administrative action.
ManageNeedsMfa ==
  \A s \in managed : confirmed /\ \E u \in uses : u.session = s

\* An external identity stays with the account it was linked to, although the
\* look-up that refuses a second link takes no lock.
IdentityNeverMoves ==
  [][\A i \in Identities : oidc[i] # NoUser => oidc'[i] = oidc[i]]_vars

\* The plan's "codici di recupero ... monouso": a recovery code is accepted once.
\* Two requests that load the list before either writes it both accept it.
RecoveryCodeOnce ==
  \A u, v \in uses : u.code = v.code /\ u.code.index # 0 => u = v

\* Sessions, as the requests interleave, behave as RevocableSessions says.
Abstract == INSTANCE RevocableSessions WITH
  status <- [s \in Sessions |-> IF sess[s].revoked THEN "revoked"
                                ELSE IF sess[s].exists THEN "active" ELSE "none"],
  raised <- {s \in Sessions : sess[s].mfa_verified},
  factor <- confirmed

ImplementsRevocableSessions == Abstract!Spec
=============================================================================
