------------------------ MODULE AuthSessions_proofs -------------------------
(***************************************************************************)
(* AuthSessions for every number of requests, sessions, codes and tokens:  *)
(* administrative actions need a traded MFA code, revocation is immediate, *)
(* a linked identity stays linked, and the interleaved requests implement  *)
(* RevocableSessions.                                                      *)
(*                                                                         *)
(* None of these is inductive as it stands, because a request writes at    *)
(* COMMIT what it decided on rows it loaded before.  IInv therefore says   *)
(* of every request under way what its loaded values still mean: the row   *)
(* of its session exists, a second factor it was admitted with is in that  *)
(* row, the row a login will insert is nobody else's, and a session that   *)
(* revoke_all has to end is either in its UPDATE or revoked already.       *)
(***************************************************************************)
EXTENDS AuthSessions, TLAPS

USE BoundsAssumption, NamesAssumption

\* The sessions that traded an MFA code.
Traded(s) == \E u \in uses : u.session = s

\* What the rows and the history say of each other.
RowsOK ==
  /\ \A s \in Sessions : sess[s].revoked => sess[s].exists
  /\ \A s \in Sessions : sess[s].mfa_verified => sess[s].exists /\ confirmed /\ Traded(s)
  /\ \A s \in ended : sess[s].revoked
  /\ cred.confirmed => confirmed
  /\ \A s \in managed : confirmed /\ Traded(s)

\* The requests bound to a session that exists.
Bound == {"refresh", "serve", "enroll", "confirm", "verify"}

\* The step at which a request of each kind can be.
StepOK(step, op) ==
  /\ step = "load_user" => op \in {"refresh", "confirm", "verify"}
  /\ step = "replay" => op = "refresh"
  /\ step \in {"auth_user", "admitted"} => op = "serve"
  /\ step = "bulk" => op = "revoke_all"

\* A request r of a session: what it loaded still holds.
SessionCallOK(r) ==
  /\ r.op \in Bound => r.session \in Sessions /\ sess[r.session].exists
  /\ r.op \in {"refresh", "serve", "enroll"} /\ r.mfa => sess[r.session].mfa_verified
  /\ r.op \in {"confirm", "verify"} => r.code \in Code
  /\ r.op = "verify" => confirmed
  /\ r.op = "login" => r.session \in Sessions /\ ~sess[r.session].exists
  /\ r.op \in {"none", "revoke_all", "link"} => r.session = NoSession
  /\ r.op = "link" => r.identity \in Identities

\* revoke_all: the sessions it is about exist; once its UPDATE has run, each of
\* them is revoked already or will be by its COMMIT.
BulkOK(step, r) ==
  r.op = "revoke_all" =>
    /\ r.version < MaxVersion
    /\ \A s \in r.known \cup r.rows : sess[s].exists
    /\ step = "commit" => \A s \in r.known : s \in r.rows \/ sess[s].revoked

CallOK(step, r) == StepOK(step, r.op) /\ SessionCallOK(r) /\ BulkOK(step, r)

\* The id of the session a login inserts is in no other request.
LoginsFresh ==
  \A p, q \in Procs : p # q /\ tx[p].op = "login" => tx[q].session # tx[p].session

IInv ==
  /\ TypeOK
  /\ RowsOK
  /\ \A p \in Procs : CallOK(pc[p], tx[p])
  /\ LoginsFresh

-----------------------------------------------------------------------------
(* Requests *)

\* The empty request and the empty rows have their types.
LEMMA NoRequestType ==
  /\ NoRequest \in Request /\ NoRow \in SessionRow /\ NoCredential \in Credential
  /\ NoRequest.op = "none" /\ NoRequest.session = NoSession /\ NoRequest.mfa = FALSE
<1>1. NoCredential \in Credential
  BY DEF NoCredential, Credential
<1>2. NoRow \in SessionRow
  BY DEF NoRow, SessionRow
<1>3. NoRequest \in Request
  BY <1>1 DEF NoRequest, Request
<1> QED BY <1>1, <1>2, <1>3 DEF NoRequest

\* A request that is over satisfies CallOK.
LEMMA IdleCallOK == CallOK("idle", NoRequest)
BY NoRequestType DEF CallOK, StepOK, SessionCallOK, BulkOK, Bound

\* What Goto leaves behind.
LEMMA GotoRows ==
  ASSUME TypeOK, NEW p \in Procs, NEW step, NEW r, Goto(p, step, r)
  PROVE  /\ pc'[p] = step /\ tx'[p] = r
         /\ \A q \in Procs : q # p => pc'[q] = pc[q] /\ tx'[q] = tx[q]
         /\ step \in Steps => pc' \in [Procs -> Steps]
         /\ r \in Request => tx' \in [Procs -> Request]
BY DEF TypeOK, Goto

\* The initial state satisfies the invariant.
LEMMA InitInv == Init => IInv
<1> SUFFICES ASSUME Init PROVE IInv
  OBVIOUS
<1>1. TypeOK
  <2>1. user \in UserRow
    BY DEF Init, UserRow
  <2>2. cred \in Credential /\ sess \in [Sessions -> SessionRow] /\ tx \in [Procs -> Request]
    BY NoRequestType DEF Init
  <2>3. /\ oidc \in [Identities -> Users \cup {NoUser}] /\ pc \in [Procs -> Steps]
        /\ issued \in [Sessions -> 0..MaxTokens] /\ enrolments \in 0..MaxEnrolments
    BY DEF Init, Steps
  <2> QED BY <2>1, <2>2, <2>3 DEF Init, TypeOK
<1>2. RowsOK
  BY DEF Init, RowsOK, NoRow, NoCredential
<1>3. \A p \in Procs : CallOK(pc[p], tx[p])
  BY IdleCallOK DEF Init
<1>4. LoginsFresh
  BY NoRequestType DEF Init, LoginsFresh
<1> QED BY <1>1, <1>2, <1>3, <1>4 DEF IInv

\* A step of one request that writes nothing: the invariant holds if it holds
\* of that request.
LEMMA LocalStep ==
  ASSUME IInv, NEW p \in Procs, NEW step \in Steps, NEW r \in Request, Goto(p, step, r),
         UNCHANGED <<db, enrolments, issued, access, history>>,
         CallOK(step, r),
         r.op = "login" => \A q \in Procs : tx[q].session # r.session
  PROVE  IInv'
<1>1. /\ pc'[p] = step /\ tx'[p] = r
      /\ \A q \in Procs : q # p => pc'[q] = pc[q] /\ tx'[q] = tx[q]
      /\ pc' \in [Procs -> Steps] /\ tx' \in [Procs -> Request]
  BY GotoRows DEF IInv
<1>2. /\ user' = user /\ sess' = sess /\ expired' = expired /\ cred' = cred /\ oidc' = oidc
      /\ enrolments' = enrolments /\ issued' = issued /\ access' = access /\ ended' = ended
      /\ confirmed' = confirmed /\ uses' = uses /\ managed' = managed
  BY DEF db, history
<1>3. TypeOK'
  BY <1>1, <1>2 DEF IInv, TypeOK
<1>4. RowsOK'
  BY <1>2 DEF IInv, RowsOK, Traded
<1>5. ASSUME NEW q \in Procs PROVE CallOK(pc[q], tx[q])'
  <2>1. CallOK(pc'[q], tx'[q])
    BY <1>1 DEF IInv
  <2> QED BY <2>1, <1>2 DEF CallOK, StepOK, SessionCallOK, BulkOK
<1>6. LoginsFresh'
  <2> SUFFICES ASSUME NEW a \in Procs, NEW b \in Procs, a # b, tx'[a].op = "login"
               PROVE  tx'[b].session # tx'[a].session
    BY DEF LoginsFresh
  <2>1. CASE a # p /\ b # p
    BY <2>1, <1>1 DEF IInv, LoginsFresh
  <2>2. CASE a = p
    BY <2>2, <1>1
  <2>3. CASE b = p
    <3>1. tx'[a] = tx[a] /\ tx[a].session \in Sessions /\ ~sess[tx[a].session].exists
      <4>1. tx'[a] = tx[a] /\ CallOK(pc[a], tx[a])
        BY <2>3, <1>1 DEF IInv
      <4> QED BY <4>1 DEF CallOK, SessionCallOK
    <3>2. r.op \in {"none", "login", "revoke_all", "link"} \cup Bound
      BY DEF Request, Bound
    <3>3. CASE r.op = "login"
      BY <3>1, <3>3, <2>3, <1>1
    <3>4. CASE r.op \in {"none", "revoke_all", "link"}
      BY <3>1, <3>4, <2>3, <1>1 DEF CallOK, SessionCallOK
    <3>5. CASE r.op \in Bound
      BY <3>1, <3>5, <2>3, <1>1 DEF CallOK, SessionCallOK
    <3> QED BY <3>2, <3>3, <3>4, <3>5
  <2> QED BY <2>1, <2>2, <2>3
<1> QED BY <1>3, <1>4, <1>5, <1>6 DEF IInv

\* The rows only grow: no session disappears, is taken its second factor or comes
\* back from revocation, and confirmation is remembered.
Grow ==
  /\ \A s \in Sessions : /\ sess[s].exists => sess'[s].exists
                         /\ sess[s].mfa_verified => sess'[s].mfa_verified
                         /\ sess[s].revoked => sess'[s].revoked
  /\ confirmed => confirmed'

\* A step that ends request p, with whatever it writes: the invariant holds if
\* the rows grow, agree with the history, and no other login loses its id.
LEMMA CommitStep ==
  ASSUME IInv, NEW p \in Procs, Return(p), TypeOK', RowsOK', Grow,
         \A q \in Procs : q # p /\ tx[q].op = "login" => ~sess'[tx[q].session].exists
  PROVE  IInv'
<1>1. /\ pc'[p] = "idle" /\ tx'[p] = NoRequest
      /\ \A q \in Procs : q # p => pc'[q] = pc[q] /\ tx'[q] = tx[q]
  BY GotoRows DEF IInv, Return
<1>2. ASSUME NEW q \in Procs PROVE CallOK(pc[q], tx[q])'
  <2>1. CASE q = p
    <3>1. CallOK("idle", NoRequest)'
      BY NoRequestType DEF CallOK, StepOK, SessionCallOK, BulkOK, Bound
    <3> QED BY <2>1, <3>1, <1>1 DEF CallOK, StepOK, SessionCallOK, BulkOK
  <2>2. CASE q # p
    <3>1. tx[q] \in Request /\ CallOK(pc[q], tx[q]) /\ pc'[q] = pc[q] /\ tx'[q] = tx[q]
      BY <1>1, <2>2 DEF IInv, TypeOK
    <3>2. tx[q].known \subseteq Sessions /\ tx[q].rows \subseteq Sessions
      BY <3>1 DEF Request
    <3>3. SessionCallOK(tx[q])' /\ BulkOK(pc[q], tx[q])' /\ StepOK(pc[q], tx[q].op)
      BY <3>1, <3>2, <2>2 DEF Grow, CallOK, SessionCallOK, BulkOK, Bound
    <3> QED BY <3>1, <3>3 DEF CallOK, StepOK
  <2> QED BY <2>1, <2>2
<1>3. LoginsFresh'
  <2> SUFFICES ASSUME NEW a \in Procs, NEW b \in Procs, a # b, tx'[a].op = "login"
               PROVE  tx'[b].session # tx'[a].session
    BY DEF LoginsFresh
  <2>1. a # p
    BY <1>1, NoRequestType
  <2>2. tx'[a] = tx[a] /\ tx[a].session \in Sessions
    BY <1>1, <2>1 DEF IInv, CallOK, SessionCallOK
  <2>3. CASE b = p
    BY <1>1, <2>2, <2>3, NoRequestType
  <2>4. CASE b # p
    BY <1>1, <2>2, <2>4 DEF IInv, LoginsFresh
  <2> QED BY <2>3, <2>4
<1> QED BY <1>2, <1>3 DEF IInv

-----------------------------------------------------------------------------
(* The steps of a request that write nothing *)

\* The row and the request a step starts from.
LEMMA Loaded ==
  ASSUME IInv, NEW p \in Procs
  PROVE  /\ tx[p] \in Request /\ CallOK(pc[p], tx[p])
         /\ user \in UserRow /\ user.session_version \in 1..MaxVersion
         /\ cred \in Credential
         /\ \A s \in Sessions : sess[s] \in SessionRow
BY DEF IInv, TypeOK, UserRow

\* login loads the user and draws an id nobody has.
LEMMA LoginInv ==
  ASSUME IInv, NEW p \in Procs, NEW s \in Sessions, login(p, s)
  PROVE  IInv'
<1> DEFINE r == [NoRequest EXCEPT !.op = "login", !.session = s,
                                  !.version = user.session_version]
<1>1. /\ r \in Request /\ r.op = "login" /\ r.session = s
  BY Loaded, NoRequestType DEF Request, NoRequest
<1>2. CallOK("commit", r)
  BY <1>1 DEF login, CallOK, StepOK, SessionCallOK, BulkOK, Bound
<1> QED BY <1>1, <1>2, LocalStep DEF login, Steps

\* refresh and refresh_replay load a session that exists.
LEMMA RefreshInv ==
  ASSUME IInv, NEW p \in Procs, NEW s \in Sessions, NEW t,
         refresh(p, s, t) \/ refresh_replay(p, s, t)
  PROVE  IInv'
<1> DEFINE r == [NoRequest EXCEPT !.op = "refresh", !.session = s,
                                  !.mfa = sess[s].mfa_verified]
           e == [NoRequest EXCEPT !.op = "refresh", !.session = s]
<1>1. sess[s].mfa_verified \in BOOLEAN
  BY Loaded DEF SessionRow
<1>2. /\ r \in Request /\ r.op = "refresh" /\ r.session = s /\ r.mfa = sess[s].mfa_verified
      /\ e \in Request /\ e.op = "refresh" /\ e.session = s /\ e.mfa = FALSE
  BY <1>1, NoRequestType DEF Request, NoRequest
<1>3. sess[s].exists
  BY DEF refresh, refresh_replay, Live
<1>4. CallOK("load_user", r) /\ CallOK("replay", e)
  BY <1>2, <1>3 DEF CallOK, StepOK, SessionCallOK, BulkOK, Bound
<1>5. CASE refresh(p, s, t)
  BY <1>2, <1>4, <1>5, LocalStep DEF refresh, Steps
<1>6. CASE refresh_replay(p, s, t)
  BY <1>2, <1>4, <1>6, LocalStep DEF refresh_replay, Steps
<1> QED BY <1>5, <1>6

\* refresh_user takes the version of the user it loads.
LEMMA RefreshUserInv ==
  ASSUME IInv, NEW p \in Procs, refresh_user(p)
  PROVE  IInv'
<1> DEFINE r == [tx[p] EXCEPT !.version = user.session_version]
<1>1. /\ r \in Request /\ r.op = tx[p].op /\ r.session = tx[p].session
      /\ r.mfa = tx[p].mfa /\ tx[p].op = "refresh"
  BY Loaded DEF Request, refresh_user
<1>2. CallOK("commit", r)
  BY <1>1, Loaded DEF CallOK, StepOK, SessionCallOK, BulkOK, Bound
<1> QED BY <1>1, <1>2, LocalStep DEF refresh_user, Steps

\* authenticate loads the session the access token names.
LEMMA AuthenticateInv ==
  ASSUME IInv, NEW p \in Procs, NEW a \in access, authenticate(p, a)
  PROVE  IInv'
<1> DEFINE r == [NoRequest EXCEPT !.op = "serve", !.session = a.session,
                                  !.version = a.version, !.mfa = a.mfa]
<1>1. a.session \in Sessions /\ a.version \in 1..MaxVersion /\ a.mfa \in BOOLEAN
  BY DEF IInv, TypeOK, AccessToken
<1>2. r \in Request /\ r.op = "serve" /\ r.session = a.session /\ r.mfa = a.mfa
  BY <1>1, NoRequestType DEF Request, NoRequest
<1>3. CallOK("auth_user", r)
  BY <1>1, <1>2 DEF authenticate, Live, CallOK, StepOK, SessionCallOK, BulkOK, Bound
<1> QED BY <1>2, <1>3, LocalStep DEF authenticate, Steps

\* authenticate_user admits the request with what it holds.
LEMMA AuthenticateUserInv ==
  ASSUME IInv, NEW p \in Procs, authenticate_user(p)
  PROVE  IInv'
<1>1. tx[p].op = "serve"
  BY Loaded DEF authenticate_user, CallOK, StepOK
<1>2. CallOK("admitted", tx[p])
  BY <1>1, Loaded DEF CallOK, StepOK, BulkOK
<1> QED BY <1>1, <1>2, Loaded, LocalStep DEF authenticate_user, Steps

\* begin_mfa_enrollment loads the credential.
LEMMA EnrollInv ==
  ASSUME IInv, NEW p \in Procs, begin_mfa_enrollment(p)
  PROVE  IInv'
<1> DEFINE r == [tx[p] EXCEPT !.op = "enroll", !.cred = cred]
<1>1. /\ r \in Request /\ r.op = "enroll" /\ r.session = tx[p].session
      /\ r.mfa = tx[p].mfa /\ tx[p].op = "serve"
  <2>1. tx[p] \in Request /\ cred \in Credential
    BY Loaded
  <2>2. r \in Request
    BY <2>1 DEF Request
  <2>3. r.op = "enroll" /\ r.session = tx[p].session /\ r.mfa = tx[p].mfa
    BY <2>1 DEF Request
  <2>4. tx[p].op = "serve"
    BY Loaded DEF begin_mfa_enrollment, CallOK, StepOK
  <2> QED BY <2>2, <2>3, <2>4
<1>2. CallOK("commit", r)
  BY <1>1, Loaded DEF CallOK, StepOK, SessionCallOK, BulkOK, Bound
<1> QED BY <1>1, <1>2, LocalStep DEF begin_mfa_enrollment, Steps

\* present_code loads the credential; verify_mfa only a confirmed one.
LEMMA PresentCodeInv ==
  ASSUME IInv, NEW p \in Procs, NEW op \in {"confirm", "verify"}, NEW code \in Code,
         present_code(p, op, code)
  PROVE  IInv'
<1> DEFINE r == [tx[p] EXCEPT !.op = op, !.cred = cred, !.code = code, !.mfa = TRUE]
<1>0. tx[p] \in Request /\ cred \in Credential /\ tx[p].op = "serve"
  BY Loaded DEF present_code, CallOK, StepOK
<1>1. r \in Request /\ r.op = op /\ r.session = tx[p].session /\ r.code = code
  BY <1>0 DEF Request
<1>2. op = "verify" => confirmed
  BY DEF present_code, IInv, RowsOK
<1>3. CallOK("load_user", r)
  BY <1>0, <1>1, <1>2, Loaded DEF CallOK, StepOK, SessionCallOK, BulkOK, Bound
<1> QED BY <1>1, <1>3, LocalStep DEF present_code, Steps

\* present_code_user takes the version of the user it loads.
LEMMA PresentCodeUserInv ==
  ASSUME IInv, NEW p \in Procs, present_code_user(p)
  PROVE  IInv'
<1> DEFINE r == [tx[p] EXCEPT !.version = user.session_version]
<1>1. /\ r \in Request /\ r.op = tx[p].op /\ r.session = tx[p].session /\ r.code = tx[p].code
      /\ tx[p].op \in {"confirm", "verify"}
  BY Loaded DEF Request, present_code_user
<1>2. CallOK("commit", r)
  BY <1>1, Loaded DEF CallOK, StepOK, SessionCallOK, BulkOK, Bound
<1> QED BY <1>1, <1>2, LocalStep DEF present_code_user, Steps

\* revoke_all loads the user; the sessions it is about exist.
LEMMA RevokeAllInv ==
  ASSUME IInv, NEW p \in Procs, revoke_all(p)
  PROVE  IInv'
<1> DEFINE r == [NoRequest EXCEPT !.op = "revoke_all", !.version = user.session_version,
                                  !.known = {s \in Sessions : sess[s].exists}]
<1>1. /\ r \in Request /\ r.op = "revoke_all" /\ r.session = NoSession
      /\ r.version = user.session_version /\ r.rows = {}
      /\ r.known = {s \in Sessions : sess[s].exists}
  BY Loaded, NoRequestType DEF Request, NoRequest
<1>2. CallOK("bulk", r)
  BY <1>1 DEF revoke_all, CallOK, StepOK, SessionCallOK, BulkOK, Bound
<1> QED BY <1>1, <1>2, LocalStep DEF revoke_all, Steps

\* The UPDATE of revoke_all finds every session it is about that is not revoked.
LEMMA RevokeAllBulkInv ==
  ASSUME IInv, NEW p \in Procs, revoke_all_bulk(p)
  PROVE  IInv'
<1> DEFINE found == {s \in Sessions : sess[s].exists /\ ~sess[s].revoked}
           r == [tx[p] EXCEPT !.rows = found]
<1>1. tx[p] \in Request /\ tx[p].op = "revoke_all" /\ CallOK("bulk", tx[p])
  BY Loaded DEF revoke_all_bulk, CallOK, StepOK
<1>2. /\ r \in Request /\ r.op = "revoke_all" /\ r.session = tx[p].session
      /\ r.version = tx[p].version /\ r.known = tx[p].known /\ r.rows = found
      /\ r.known \subseteq Sessions
  BY <1>1 DEF Request
<1>3. SessionCallOK(r) /\ StepOK("commit", r.op)
  BY <1>1, <1>2 DEF CallOK, StepOK, SessionCallOK, Bound
<1>4. BulkOK("commit", r)
  BY <1>1, <1>2 DEF CallOK, BulkOK
<1>5. CallOK("commit", r)
  BY <1>3, <1>4 DEF CallOK
<1> QED BY <1>2, <1>5, LocalStep DEF revoke_all_bulk, Steps

\* map_oidc_identity is about an identity.
LEMMA MapOidcInv ==
  ASSUME IInv, NEW p \in Procs, NEW i \in Identities, NEW u \in Users,
         map_oidc_identity(p, i, u)
  PROVE  IInv'
<1> DEFINE r == [NoRequest EXCEPT !.op = "link", !.identity = i, !.owner = u]
<1>1. r \in Request /\ r.op = "link" /\ r.session = NoSession /\ r.identity = i
  BY NoRequestType DEF Request, NoRequest
<1>2. CallOK("commit", r)
  BY <1>1 DEF CallOK, StepOK, SessionCallOK, BulkOK, Bound
<1> QED BY <1>1, <1>2, LocalStep DEF map_oidc_identity, Steps

\* A rolled back request leaves nothing.
LEMMA RollbackInv ==
  ASSUME IInv, NEW p \in Procs, rollback(p)
  PROVE  IInv'
BY LocalStep, NoRequestType, IdleCallOK DEF rollback, Return, Steps

-----------------------------------------------------------------------------
(* The steps that write *)

\* The delivered tokens have their types.
LEMMA DeliverType ==
  ASSUME IInv, NEW s \in Sessions, NEW v \in 1..MaxVersion, NEW b \in BOOLEAN,
         deliver(s, v, b)
  PROVE  /\ issued' \in [Sessions -> 0..MaxTokens] /\ issued'[s] \in 1..MaxTokens
         /\ access' \subseteq AccessToken
<1>1. issued \in [Sessions -> 0..MaxTokens] /\ access \subseteq AccessToken
  BY DEF IInv, TypeOK
<1>2. issued[s] \in Nat /\ issued[s] < MaxTokens /\ MaxTokens \in Nat
  BY <1>1 DEF deliver
<1>3. issued[s] + 1 \in 1..MaxTokens
  BY <1>2
<1>4. [session |-> s, version |-> v, mfa |-> b] \in AccessToken
  BY DEF AccessToken
<1> QED BY <1>1, <1>3, <1>4 DEF deliver

\* COMMIT fails: only the delivered tokens remain of the request.
LEMMA CommitFailsInv ==
  ASSUME IInv, NEW p \in Procs, commit_fails(p)
  PROVE  IInv'
<1>1. tx[p].session \in Sessions /\ tx[p].version \in 1..MaxVersion /\ tx[p].mfa \in BOOLEAN
  BY Loaded DEF commit_fails, CallOK, SessionCallOK, Bound, Request
<1>2. issued' \in [Sessions -> 0..MaxTokens] /\ access' \subseteq AccessToken
  BY <1>1, DeliverType DEF commit_fails
<1>3. /\ user' = user /\ sess' = sess /\ expired' = expired /\ cred' = cred /\ oidc' = oidc
      /\ enrolments' = enrolments /\ ended' = ended
      /\ confirmed' = confirmed /\ uses' = uses /\ managed' = managed
  BY DEF commit_fails, db, history
<1>4. pc' \in [Procs -> Steps] /\ tx' \in [Procs -> Request]
  BY GotoRows, NoRequestType DEF commit_fails, Return, IInv, Steps
<1>5. TypeOK'
  BY <1>2, <1>3, <1>4 DEF IInv, TypeOK
<1>6. RowsOK' /\ Grow
  BY <1>3 DEF IInv, RowsOK, Traded, Grow
<1>7. \A q \in Procs : q # p /\ tx[q].op = "login" => ~sess'[tx[q].session].exists
  BY <1>3 DEF IInv, CallOK, SessionCallOK
<1> QED BY <1>5, <1>6, <1>7, CommitStep DEF commit_fails

\* Request p ends having replaced the row of one session s by a row that exists
\* and has lost nothing, and nothing of the history but that row's.
LEMMA RowCommitStep ==
  ASSUME IInv, NEW p \in Procs, Return(p), TypeOK',
         NEW s \in Sessions, NEW row \in SessionRow, sess' = [sess EXCEPT ![s] = row],
         row.exists, sess[s].revoked => row.revoked, sess[s].mfa_verified => row.mfa_verified,
         row.mfa_verified => confirmed' /\ Traded(s)',
         ended' = ended \/ (row.revoked /\ ended' = ended \cup {s}),
         confirmed => confirmed', cred'.confirmed => confirmed', uses \subseteq uses',
         managed' = managed,
         \A q \in Procs : q # p /\ tx[q].op = "login" => tx[q].session # s
  PROVE  IInv'
<1>1. /\ sess'[s] = row
      /\ \A t \in Sessions : t # s => sess'[t] = sess[t]
  BY DEF IInv, TypeOK
<1>2. Grow
  BY <1>1 DEF Grow
<1>3. \A t \in Sessions : Traded(t) => Traded(t)'
  BY DEF Traded
<1>4. RowsOK'
  <2>1. managed \subseteq Sessions /\ ended \subseteq Sessions
    BY DEF IInv, TypeOK
  <2>2. RowsOK
    BY DEF IInv
  <2>3. \A t \in Sessions : sess'[t].revoked => sess'[t].exists
    BY <1>1, <2>2 DEF RowsOK
  <2>4. \A t \in Sessions : sess'[t].mfa_verified => sess'[t].exists /\ confirmed' /\ Traded(t)'
    <3> TAKE t \in Sessions
    <3>1. CASE t = s
      BY <3>1, <1>1
    <3>2. CASE t # s
      BY <3>2, <1>1, <1>3, <2>2 DEF RowsOK
    <3> QED BY <3>1, <3>2
  <2>5. \A t \in ended' : sess'[t].revoked
    <3> TAKE t \in ended'
    <3>1. CASE t \in ended
      BY <3>1, <1>1, <2>1, <2>2 DEF RowsOK
    <3>2. CASE t \notin ended
      BY <3>2, <1>1
    <3> QED BY <3>1, <3>2
  <2>6. \A t \in managed' : confirmed' /\ Traded(t)'
    BY <1>3, <2>1, <2>2 DEF RowsOK
  <2> QED BY <2>3, <2>4, <2>5, <2>6 DEF RowsOK
<1>5. \A q \in Procs : q # p /\ tx[q].op = "login" => ~sess'[tx[q].session].exists
  BY <1>1 DEF IInv, CallOK, SessionCallOK
<1> QED BY <1>2, <1>4, <1>5, CommitStep

\* A login that a request of an existing session is not about.
LEMMA LoginElsewhere ==
  ASSUME IInv, NEW s \in Sessions, sess[s].exists
  PROVE  \A q \in Procs : tx[q].op = "login" => tx[q].session # s
BY DEF IInv, CallOK, SessionCallOK

\* The types after a step that replaced one session row and ended its request.
LEMMA RowCommitType ==
  ASSUME IInv, NEW p \in Procs, Return(p), NEW s \in Sessions, NEW row \in SessionRow,
         sess' = [sess EXCEPT ![s] = row]
  PROVE  /\ sess' \in [Sessions -> SessionRow]
         /\ pc' \in [Procs -> Steps] /\ tx' \in [Procs -> Request]
<1>1. pc' \in [Procs -> Steps] /\ tx' \in [Procs -> Request]
  BY GotoRows, NoRequestType DEF Return, IInv, Steps
<1> QED BY <1>1 DEF IInv, TypeOK

\* login_commit inserts the row of an id that no other request has.
LEMMA LoginCommitInv ==
  ASSUME IInv, NEW p \in Procs, login_commit(p)
  PROVE  IInv'
<1> DEFINE s == tx[p].session
           row == [NoRow EXCEPT !.exists = TRUE, !.refresh = issued'[s]]
<1>1. /\ s \in Sessions /\ ~sess[s].exists /\ tx[p].version \in 1..MaxVersion
  BY Loaded DEF login_commit, CallOK, SessionCallOK, Request
<1>2. /\ issued' \in [Sessions -> 0..MaxTokens] /\ access' \subseteq AccessToken
      /\ issued'[s] \in 0..MaxTokens
  BY <1>1, DeliverType DEF login_commit
<1>3. row \in SessionRow /\ row.exists /\ ~row.mfa_verified /\ ~row.revoked
  BY <1>2 DEF SessionRow, NoRow
<1>4. /\ sess' = [sess EXCEPT ![s] = row] /\ Return(p) /\ user' = user /\ expired' = expired
      /\ cred' = cred /\ oidc' = oidc /\ enrolments' = enrolments /\ ended' = ended
      /\ confirmed' = confirmed /\ uses' = uses /\ managed' = managed
  BY DEF login_commit, history
<1>5. TypeOK'
  BY <1>1, <1>2, <1>3, <1>4, RowCommitType DEF IInv, TypeOK
<1>6. ~sess[s].revoked /\ ~sess[s].mfa_verified /\ (cred.confirmed => confirmed)
  BY <1>1 DEF IInv, RowsOK
<1>7. \A q \in Procs : q # p /\ tx[q].op = "login" => tx[q].session # s
  BY DEF IInv, LoginsFresh, login_commit
<1>8. PICK t \in Sessions, new \in SessionRow : t = s /\ new = row
  BY <1>1, <1>3
<1>9. /\ sess[t].revoked => new.revoked
      /\ sess[t].mfa_verified => new.mfa_verified
      /\ new.mfa_verified => confirmed' /\ Traded(t)'
      /\ confirmed => confirmed'
      /\ cred'.confirmed => confirmed'
      /\ uses \subseteq uses'
  BY <1>3, <1>4, <1>6, <1>8
<1>10. /\ new.exists /\ sess' = [sess EXCEPT ![t] = new] /\ Return(p)
       /\ ended' = ended /\ managed' = managed
  BY <1>3, <1>4, <1>8
<1>11. \A q \in Procs : q # p /\ tx[q].op = "login" => tx[q].session # t
  BY <1>7, <1>8
<1> HIDE DEF row, s
<1> QED BY <1>5, <1>9, <1>10, <1>11, RowCommitStep

\* refresh_commit writes the token and keeps the rest of the row as it finds it.
LEMMA RefreshCommitInv ==
  ASSUME IInv, NEW p \in Procs, refresh_commit(p)
  PROVE  IInv'
<1> DEFINE s == tx[p].session
           row == RotatedRow(sess[s], issued'[s])
<1>1. /\ s \in Sessions /\ sess[s].exists /\ sess[s] \in SessionRow
      /\ tx[p].version \in 1..MaxVersion /\ tx[p].mfa \in BOOLEAN
  BY Loaded DEF refresh_commit, CallOK, SessionCallOK, Bound, Request
<1>2. /\ issued' \in [Sessions -> 0..MaxTokens] /\ access' \subseteq AccessToken
      /\ issued'[s] \in 0..MaxTokens
  BY <1>1, DeliverType DEF refresh_commit
<1>3. /\ row \in SessionRow /\ row.exists /\ row.mfa_verified = sess[s].mfa_verified
      /\ row.revoked = sess[s].revoked
  BY <1>1, <1>2 DEF SessionRow, RotatedRow
<1>4. /\ sess' = [sess EXCEPT ![s] = row] /\ Return(p) /\ user' = user /\ expired' = expired
      /\ cred' = cred /\ oidc' = oidc /\ enrolments' = enrolments /\ ended' = ended
      /\ confirmed' = confirmed /\ uses' = uses /\ managed' = managed
  BY DEF refresh_commit, history
<1>5. TypeOK'
  BY <1>1, <1>2, <1>3, <1>4, RowCommitType DEF IInv, TypeOK
<1>6. (sess[s].mfa_verified => confirmed /\ Traded(s)) /\ (cred.confirmed => confirmed)
  BY <1>1 DEF IInv, RowsOK
<1>7. \A q \in Procs : q # p /\ tx[q].op = "login" => tx[q].session # s
  BY <1>1, LoginElsewhere
<1> QED
  <2>1. uses \subseteq uses' /\ (confirmed => confirmed') /\ (cred'.confirmed => confirmed')
    BY <1>4, <1>6
  <2>2. (sess[s].revoked => row.revoked) /\ (sess[s].mfa_verified => row.mfa_verified)
    BY <1>3
  <2>3. PICK t \in Sessions : t = s
    BY <1>1
  <2>4. row.mfa_verified => confirmed' /\ Traded(t)'
    BY <1>3, <1>4, <1>6, <2>3 DEF Traded
  <2> HIDE DEF row, s
  <2> QED BY <1>3, <1>4, <1>5, <1>7, <2>1, <2>2, <2>3, <2>4, RowCommitStep

\* A replayed token and a logout revoke the session and nothing else.
LEMMA RevokeOneInv ==
  ASSUME IInv, NEW p \in Procs, replay_commit(p) \/ logout(p)
  PROVE  IInv'
<1> DEFINE row == [sess[tx[p].session] EXCEPT !.revoked = TRUE]
<1>0. tx[p].op \in {"refresh", "serve"}
  BY Loaded DEF replay_commit, logout, CallOK, StepOK
<1>1. PICK s \in Sessions : s = tx[p].session /\ sess[s].exists /\ sess[s] \in SessionRow
  BY <1>0, Loaded DEF CallOK, SessionCallOK, Bound
<1>2. /\ row \in SessionRow /\ row.exists /\ row.mfa_verified = sess[s].mfa_verified
      /\ row.revoked
  BY <1>1 DEF SessionRow
<1>3. /\ sess' = [sess EXCEPT ![s] = row] /\ Return(p) /\ user' = user /\ expired' = expired
      /\ cred' = cred /\ oidc' = oidc /\ enrolments' = enrolments /\ ended' = ended \cup {s}
      /\ issued' = issued /\ access' = access
      /\ confirmed' = confirmed /\ uses' = uses /\ managed' = managed
  BY <1>1 DEF replay_commit, logout
<1>4. TypeOK'
  BY <1>2, <1>3, RowCommitType DEF IInv, TypeOK
<1>5. (sess[s].mfa_verified => confirmed /\ Traded(s)) /\ (cred.confirmed => confirmed)
  BY DEF IInv, RowsOK
<1>6. row.mfa_verified => confirmed' /\ Traded(s)'
  BY <1>2, <1>3, <1>5 DEF Traded
<1>7. \A q \in Procs : q # p /\ tx[q].op = "login" => tx[q].session # s
  BY <1>1, LoginElsewhere
<1>8. /\ sess[s].revoked => row.revoked
      /\ sess[s].mfa_verified => row.mfa_verified
      /\ confirmed => confirmed'
      /\ cred'.confirmed => confirmed'
      /\ uses \subseteq uses'
  BY <1>2, <1>3, <1>5
<1>9. /\ row \in SessionRow /\ row.exists /\ sess' = [sess EXCEPT ![s] = row] /\ Return(p)
      /\ row.revoked /\ ended' = ended \cup {s} /\ managed' = managed
  BY <1>2, <1>3
<1> HIDE DEF row
<1> QED BY <1>4, <1>6, <1>7, <1>8, <1>9, RowCommitStep

\* present_code_commit raises the session, having traded the code: confirm_mfa
\* confirms the credential, verify_mfa found it confirmed.
LEMMA PresentCodeCommitInv ==
  ASSUME IInv, NEW p \in Procs, present_code_commit(p)
  PROVE  IInv'
<1>1. PICK s \in Sessions : s = tx[p].session /\ sess[s].exists /\ sess[s] \in SessionRow
  BY Loaded DEF present_code_commit, CallOK, SessionCallOK, Bound
<1> DEFINE row == [RotatedRow(sess[s], issued'[s]) EXCEPT !.mfa_verified = TRUE]
           first == tx[p].op = "confirm"
           use == [code |-> tx[p].code, session |-> s, token |-> issued'[s]]
<1>2. /\ tx[p] \in Request /\ tx[p].version \in 1..MaxVersion /\ tx[p].code \in Code
      /\ tx[p].cred \in Credential /\ (tx[p].op = "verify" => confirmed)
      /\ tx[p].op \in {"confirm", "verify"}
  BY Loaded DEF present_code_commit, CallOK, SessionCallOK, Request
<1>3. /\ issued' \in [Sessions -> 0..MaxTokens] /\ access' \subseteq AccessToken
      /\ issued'[s] \in 1..MaxTokens
  BY <1>1, <1>2, DeliverType DEF present_code_commit
<1>4. /\ row \in SessionRow /\ row.exists /\ row.mfa_verified /\ row.revoked = sess[s].revoked
  BY <1>1, <1>3 DEF SessionRow, RotatedRow
<1>5. /\ sess' = [sess EXCEPT ![s] = row] /\ Return(p) /\ user' = user /\ expired' = expired
      /\ oidc' = oidc /\ enrolments' = enrolments /\ ended' = ended /\ managed' = managed
      /\ confirmed' = (confirmed \/ first) /\ uses' = uses \cup {use}
      /\ cred' = [cred EXCEPT !.codes = CodesAfter(tx[p].cred, tx[p].code),
                               !.confirmed = @ \/ first]
  BY <1>1 DEF present_code_commit
<1>6. confirmed' = TRUE
  BY <1>2, <1>5 DEF IInv, TypeOK
<1>7. cred' \in Credential
  <2>1. CodesAfter(tx[p].cred, tx[p].code) \in SUBSET Code
    BY <1>2, Loaded DEF CodesAfter, Credential
  <2>2. cred \in Credential /\ (cred.confirmed \/ first) \in BOOLEAN
    BY Loaded DEF Credential
  <2> QED BY <1>5, <2>1, <2>2 DEF Credential
<1>8. uses' \subseteq [code : Code, session : Sessions, token : 1..MaxTokens]
  BY <1>2, <1>3, <1>5 DEF IInv, TypeOK
<1>9. TypeOK'
  BY <1>3, <1>4, <1>5, <1>6, <1>7, <1>8, RowCommitType DEF IInv, TypeOK
<1>10. Traded(s)'
  <2>1. use \in uses' /\ use.session = s
    BY <1>5
  <2> HIDE DEF use
  <2> QED BY <2>1 DEF Traded
<1>11. \A q \in Procs : q # p /\ tx[q].op = "login" => tx[q].session # s
  BY <1>1, LoginElsewhere
<1> HIDE DEF row, use, first
<1> QED BY <1>4, <1>5, <1>6, <1>9, <1>10, <1>11, RowCommitStep

\* A step that ends request p and writes neither sessions nor credential nor the
\* history of the sessions.
LEMMA OtherCommitStep ==
  ASSUME IInv, NEW p \in Procs, Return(p), TypeOK',
         UNCHANGED <<sess, ended, confirmed, uses>>,
         cred'.confirmed => confirmed,
         \A s \in managed' : confirmed /\ Traded(s)
  PROVE  IInv'
<1>1. RowsOK' /\ Grow
  BY DEF IInv, RowsOK, Traded, Grow
<1>2. \A q \in Procs : q # p /\ tx[q].op = "login" => ~sess'[tx[q].session].exists
  BY DEF IInv, CallOK, SessionCallOK
<1> QED BY <1>1, <1>2, CommitStep

\* A role that holds an administrative permission is the administrator's.
LEMMA ManageIsAdmin ==
  ASSUME NEW permission \in ManagePermissions, permission \in ROLE_PERMISSIONS(Role)
  PROVE  Role = "admin"
BY DEF ManagePermissions, ROLE_PERMISSIONS

\* serve performs an administrative action only in a session with the factor.
LEMMA ServeInv ==
  ASSUME IInv, NEW p \in Procs, NEW permission, serve(p, permission)
  PROVE  IInv'
<1>1. /\ tx[p].session \in Sessions /\ (tx[p].mfa => sess[tx[p].session].mfa_verified)
  BY Loaded DEF serve, CallOK, StepOK, SessionCallOK, Bound
<1>2. permission \in ManagePermissions => confirmed /\ Traded(tx[p].session)
  BY <1>1, ManageIsAdmin DEF serve, require_permission, IInv, RowsOK
<1>3. \A s \in managed' : s \in Sessions /\ confirmed /\ Traded(s)
  BY <1>1, <1>2 DEF serve, IInv, RowsOK, TypeOK
<1>4. pc' \in [Procs -> Steps] /\ tx' \in [Procs -> Request]
  BY GotoRows, NoRequestType DEF serve, Return, IInv, Steps
<1>5. /\ user' = user /\ sess' = sess /\ expired' = expired /\ cred' = cred /\ oidc' = oidc
      /\ enrolments' = enrolments /\ issued' = issued /\ access' = access /\ ended' = ended
      /\ confirmed' = confirmed /\ uses' = uses /\ Return(p)
  BY DEF serve, db
<1>6. TypeOK'
  BY <1>3, <1>4, <1>5 DEF IInv, TypeOK
<1>7. cred'.confirmed => confirmed
  BY <1>5 DEF IInv, RowsOK
<1> QED BY <1>3, <1>5, <1>6, <1>7, OtherCommitStep

\* enroll_commit never stores a confirmation that was not there.
LEMMA EnrollCommitInv ==
  ASSUME IInv, NEW p \in Procs, enroll_commit(p)
  PROVE  IInv'
<1>1. enrolments' \in 1..MaxEnrolments
  BY DEF enroll_commit, IInv, TypeOK
<1>2. cred' \in Credential /\ (cred'.confirmed => cred.confirmed)
  <2>1. RecoveryCodes(enrolments') \in SUBSET Code
    BY DEF RecoveryCodes
  <2>2. (cred.confirmed /\ ~tx[p].cred.confirmed) \in BOOLEAN
    OBVIOUS
  <2>3. cred' = [secret |-> enrolments', codes |-> RecoveryCodes(enrolments'),
                 confirmed |-> cred.confirmed /\ ~tx[p].cred.confirmed]
    BY DEF enroll_commit, EnrolledRow
  <2>4. cred' \in Credential
    BY <1>1, <2>1, <2>2, <2>3 DEF Credential
  <2> QED BY <2>3, <2>4
<1>3. pc' \in [Procs -> Steps] /\ tx' \in [Procs -> Request]
  BY GotoRows, NoRequestType DEF enroll_commit, Return, IInv, Steps
<1>4. /\ user' = user /\ sess' = sess /\ expired' = expired /\ oidc' = oidc
      /\ issued' = issued /\ access' = access /\ ended' = ended
      /\ confirmed' = confirmed /\ uses' = uses /\ managed' = managed /\ Return(p)
  BY DEF enroll_commit, history
<1>5. TypeOK'
  BY <1>1, <1>2, <1>3, <1>4 DEF IInv, TypeOK
<1>6. (cred'.confirmed => confirmed) /\ \A s \in managed' : confirmed /\ Traded(s)
  BY <1>2, <1>4 DEF IInv, RowsOK
<1> QED BY <1>4, <1>5, <1>6, OtherCommitStep

\* map_oidc_commit writes the identity and nothing else.
LEMMA MapOidcCommitInv ==
  ASSUME IInv, NEW p \in Procs, map_oidc_commit(p)
  PROVE  IInv'
<1>1. tx[p].identity \in Identities /\ tx[p].owner \in Users \cup {NoUser}
  BY Loaded DEF map_oidc_commit, CallOK, SessionCallOK, Request
<1>2. oidc' \in [Identities -> Users \cup {NoUser}]
  BY <1>1 DEF map_oidc_commit, IInv, TypeOK
<1>3. pc' \in [Procs -> Steps] /\ tx' \in [Procs -> Request]
  BY GotoRows, NoRequestType DEF map_oidc_commit, Return, IInv, Steps
<1>4. /\ user' = user /\ sess' = sess /\ expired' = expired /\ cred' = cred
      /\ enrolments' = enrolments /\ issued' = issued /\ access' = access /\ ended' = ended
      /\ confirmed' = confirmed /\ uses' = uses /\ managed' = managed /\ Return(p)
  BY DEF map_oidc_commit, history
<1>5. TypeOK'
  BY <1>2, <1>3, <1>4 DEF IInv, TypeOK
<1>6. (cred'.confirmed => confirmed) /\ \A s \in managed' : confirmed /\ Traded(s)
  BY <1>4 DEF IInv, RowsOK
<1> QED BY <1>4, <1>5, <1>6, OtherCommitStep

\* What revoke_all is about when it commits.
LEMMA RevokeAllRequest ==
  ASSUME IInv, NEW p \in Procs, revoke_all_commit(p)
  PROVE  /\ tx[p].rows \subseteq Sessions /\ tx[p].known \subseteq Sessions
         /\ \A s \in tx[p].rows \cup tx[p].known : sess[s].exists
         /\ \A s \in tx[p].known : s \in tx[p].rows \/ sess[s].revoked
BY Loaded DEF revoke_all_commit, Request, CallOK, BulkOK

\* The session rows that revoke_all writes.
LEMMA RevokedRows ==
  ASSUME IInv, NEW p \in Procs, revoke_all_commit(p)
  PROVE  \A s \in Sessions : /\ (sess'[s].exists <=> sess[s].exists)
                            /\ (sess'[s].mfa_verified <=> sess[s].mfa_verified)
                            /\ (sess'[s].revoked <=> sess[s].revoked \/ s \in tx[p].rows)
<1>1. ASSUME NEW s \in Sessions
      PROVE  LET row == [sess[s] EXCEPT !.revoked = TRUE]
             IN  /\ row \in SessionRow /\ row.exists = sess[s].exists
                 /\ row.mfa_verified = sess[s].mfa_verified /\ row.revoked
  <2>1. sess[s] \in SessionRow
    BY Loaded
  <2> QED BY <2>1 DEF SessionRow
<1>2. sess' = [s \in Sessions |-> IF s \in tx[p].rows THEN [sess[s] EXCEPT !.revoked = TRUE]
                                                      ELSE sess[s]]
  BY DEF revoke_all_commit
<1> TAKE s \in Sessions
<1>3. CASE s \in tx[p].rows
  BY <1>1, <1>2, <1>3
<1>4. CASE s \notin tx[p].rows
  BY <1>2, <1>4, Loaded
<1> QED BY <1>3, <1>4

\* revoke_all_commit ends every session it was about.
LEMMA RevokeAllCommitInv ==
  ASSUME IInv, NEW p \in Procs, revoke_all_commit(p)
  PROVE  IInv'
<1>1. tx[p].version \in 1..MaxVersion /\ tx[p].version < MaxVersion
  BY Loaded DEF revoke_all_commit, Request, CallOK, BulkOK
<1>2. user' \in UserRow
  <2>1. tx[p].version + 1 \in 1..MaxVersion /\ user \in UserRow
    BY <1>1, Loaded
  <2> QED BY <2>1 DEF revoke_all_commit, UserRow
<1>3. pc' \in [Procs -> Steps] /\ tx' \in [Procs -> Request]
  BY GotoRows, NoRequestType DEF revoke_all_commit, Return, IInv, Steps
<1>4. /\ expired' = expired /\ cred' = cred /\ oidc' = oidc /\ enrolments' = enrolments
      /\ issued' = issued /\ access' = access /\ ended' = ended \cup tx[p].known
      /\ confirmed' = confirmed /\ uses' = uses /\ managed' = managed /\ Return(p)
  BY DEF revoke_all_commit
<1>5. TypeOK'
  <2>1. sess' \in [Sessions -> SessionRow]
    <3>1. \A s \in Sessions : sess[s] \in SessionRow /\ [sess[s] EXCEPT !.revoked = TRUE] \in SessionRow
      BY Loaded DEF SessionRow
    <3> QED BY <3>1 DEF revoke_all_commit
  <2>2. ended' \subseteq Sessions
    BY <1>4, RevokeAllRequest DEF IInv, TypeOK
  <2> QED BY <1>2, <1>3, <1>4, <2>1, <2>2 DEF IInv, TypeOK
<1>6. Grow
  BY <1>4, RevokedRows DEF Grow
<1>7. RowsOK'
  <2>1. RowsOK /\ ended \subseteq Sessions /\ \A s \in Sessions : Traded(s)' <=> Traded(s)
    BY <1>4 DEF IInv, TypeOK, Traded
  <2>2. \A s \in Sessions : sess'[s].revoked => sess'[s].exists
    BY <2>1, RevokedRows, RevokeAllRequest DEF RowsOK
  <2>3. \A s \in ended' : sess'[s].revoked
    BY <1>4, <1>6, <2>1, RevokedRows, RevokeAllRequest DEF RowsOK, Grow
  <2>4. \A s \in managed' : confirmed' /\ Traded(s)'
    BY <1>4, <2>1 DEF RowsOK, IInv, TypeOK
  <2> QED BY <1>4, <2>1, <2>2, <2>3, <2>4, RevokedRows DEF RowsOK
<1>8. \A q \in Procs : q # p /\ tx[q].op = "login" => ~sess'[tx[q].session].exists
  BY RevokedRows DEF IInv, CallOK, SessionCallOK
<1> QED BY <1>4, <1>5, <1>6, <1>7, <1>8, CommitStep

\* Expiry and deactivation touch no request, no session row and no history.
LEMMA OutsideInv ==
  ASSUME IInv, (\E s \in Sessions : session_expires(s)) \/ deactivate
  PROVE  IInv'
<1>1. /\ sess' = sess /\ cred' = cred /\ oidc' = oidc /\ pc' = pc /\ tx' = tx
      /\ enrolments' = enrolments /\ issued' = issued /\ access' = access /\ ended' = ended
      /\ confirmed' = confirmed /\ uses' = uses /\ managed' = managed
  BY DEF session_expires, deactivate, history
<1>2. user' \in UserRow /\ expired' \subseteq Sessions
  BY DEF session_expires, deactivate, IInv, TypeOK, UserRow
<1>3. TypeOK'
  BY <1>1, <1>2 DEF IInv, TypeOK
<1>4. RowsOK' /\ LoginsFresh'
  BY <1>1 DEF IInv, RowsOK, Traded, LoginsFresh
<1>5. \A p \in Procs : CallOK(pc[p], tx[p])'
  BY <1>1 DEF IInv, CallOK, StepOK, SessionCallOK, BulkOK
<1> QED BY <1>3, <1>4, <1>5 DEF IInv

-----------------------------------------------------------------------------
(* The theorems *)

\* IInv is inductive.
LEMMA NextInv == IInv /\ [Next]_vars => IInv'
<1> SUFFICES ASSUME IInv, [Next]_vars PROVE IInv'
  OBVIOUS
<1>1. ASSUME NEW p \in Procs,
             \/ rollback(p) \/ commit_fails(p)
             \/ login_commit(p) \/ refresh_user(p) \/ refresh_commit(p) \/ replay_commit(p)
             \/ authenticate_user(p) \/ logout(p)
      PROVE  IInv'
  BY <1>1, RollbackInv, CommitFailsInv, LoginCommitInv, RefreshUserInv, RefreshCommitInv,
     RevokeOneInv, AuthenticateUserInv
<1>2. ASSUME NEW p \in Procs,
             \/ begin_mfa_enrollment(p) \/ enroll_commit(p)
             \/ present_code_user(p) \/ present_code_commit(p)
             \/ revoke_all(p) \/ revoke_all_bulk(p) \/ revoke_all_commit(p)
             \/ map_oidc_commit(p)
      PROVE  IInv'
  BY <1>2, EnrollInv, EnrollCommitInv, PresentCodeUserInv, PresentCodeCommitInv, RevokeAllInv,
     RevokeAllBulkInv, RevokeAllCommitInv, MapOidcCommitInv
<1>3. ASSUME NEW p \in Procs,
             \/ \E s \in Sessions : login(p, s)
             \/ \E s \in Sessions, t \in 1..MaxTokens :
                  t <= issued[s] /\ (refresh(p, s, t) \/ refresh_replay(p, s, t))
             \/ \E a \in access : authenticate(p, a)
      PROVE  IInv'
  BY <1>3, LoginInv, RefreshInv, AuthenticateInv
<1>4. ASSUME NEW p \in Procs,
             \/ \E permission \in Permissions : serve(p, permission)
             \/ \E op \in {"confirm", "verify"}, code \in Code : present_code(p, op, code)
             \/ \E i \in Identities, u \in Users : map_oidc_identity(p, i, u)
      PROVE  IInv'
  BY <1>4, ServeInv, PresentCodeInv, MapOidcInv
<1>5. CASE UNCHANGED vars
  <2>1. /\ sess' = sess /\ cred' = cred /\ oidc' = oidc /\ pc' = pc /\ tx' = tx
        /\ enrolments' = enrolments /\ issued' = issued /\ access' = access /\ ended' = ended
        /\ confirmed' = confirmed /\ uses' = uses /\ managed' = managed
        /\ user' = user /\ expired' = expired
    BY <1>5 DEF vars
  <2>2. \A p \in Procs : CallOK(pc[p], tx[p])'
    BY <2>1 DEF IInv, CallOK, StepOK, SessionCallOK, BulkOK
  <2> QED BY <2>1, <2>2 DEF IInv, TypeOK, RowsOK, Traded, LoginsFresh
<1> QED BY <1>1, <1>2, <1>3, <1>4, <1>5, OutsideInv DEF Next

\* Every reachable state satisfies the invariant.
THEOREM Invariance == Spec => []IInv
BY InitInv, NextInv, PTL DEF Spec

\* The rows, the requests and the tokens keep their types.
THEOREM TypeCorrect == Spec => []TypeOK
<1>1. IInv => TypeOK
  BY DEF IInv
<1> QED BY <1>1, Invariance, PTL

\* Only sessions that traded an MFA code after a credential was confirmed have
\* performed an administrative action, however requests interleave.
THEOREM SecondFactorForManagement == Spec => []ManageNeedsMfa
<1>1. IInv => ManageNeedsMfa
  BY DEF IInv, RowsOK, Traded, ManageNeedsMfa
<1> QED BY <1>1, Invariance, PTL

\* A request begins with no session some request has revoked: a login has a new
\* one, refresh and authenticate a live one, the others none.
LEMMA BeginStep ==
  IInv /\ [Next]_vars =>
    \A p \in Procs : pc[p] = "idle" /\ pc'[p] # "idle" => tx'[p].session \notin ended
<1> SUFFICES ASSUME IInv, [Next]_vars, NEW p \in Procs, pc[p] = "idle", pc'[p] # "idle"
             PROVE  tx'[p].session \notin ended
  OBVIOUS
<1>1. /\ \A s \in ended : sess[s].revoked /\ sess[s].exists
      /\ NoSession \notin ended /\ TypeOK
  BY DEF IInv, RowsOK, TypeOK
<1>2. ASSUME NEW q \in Procs, NEW step, NEW r, Goto(q, step, r)
      PROVE  q = p /\ tx'[p] = r
  BY <1>1, <1>2, GotoRows
<1>3. ASSUME NEW q \in Procs, Return(q) PROVE FALSE
  <2>1. pc'[q] = "idle" /\ (q # p => pc'[p] = pc[p])
    BY <1>1, <1>3, GotoRows DEF Return
  <2> QED BY <2>1
<1>4. \A q \in Procs : ~ (\/ rollback(q) \/ commit_fails(q) \/ login_commit(q) \/ refresh_commit(q)
                          \/ replay_commit(q) \/ logout(q) \/ enroll_commit(q)
                          \/ present_code_commit(q) \/ revoke_all_commit(q) \/ map_oidc_commit(q)
                          \/ \E permission \in Permissions : serve(q, permission))
  BY <1>3 DEF rollback, commit_fails, login_commit, refresh_commit, replay_commit, logout,
     enroll_commit, present_code_commit, revoke_all_commit, map_oidc_commit, serve
<1>5. \A q \in Procs : ~ (\/ refresh_user(q) \/ authenticate_user(q) \/ begin_mfa_enrollment(q)
                          \/ revoke_all_bulk(q) \/ present_code_user(q)
                          \/ \E op \in {"confirm", "verify"}, code \in Code :
                               present_code(q, op, code))
  BY <1>2 DEF refresh_user, authenticate_user, begin_mfa_enrollment, revoke_all_bulk,
     present_code_user, present_code
<1>6. ASSUME NEW q \in Procs, NEW s \in Sessions, login(q, s) PROVE tx'[p].session \notin ended
  <2>1. tx'[p].session = s
    <3>1. tx'[p] = [NoRequest EXCEPT !.op = "login", !.session = s,
                                     !.version = user.session_version]
      BY <1>2, <1>6 DEF login
    <3> QED BY <3>1 DEF NoRequest
  <2> QED BY <1>1, <1>6, <2>1 DEF login
<1>7. ASSUME NEW q \in Procs, NEW s \in Sessions, NEW t,
             refresh(q, s, t) \/ refresh_replay(q, s, t)
      PROVE  tx'[p].session \notin ended
  <2>1. tx'[p].session = s
    <3>1. \/ tx'[p] = [NoRequest EXCEPT !.op = "refresh", !.session = s,
                                        !.mfa = sess[s].mfa_verified]
          \/ tx'[p] = [NoRequest EXCEPT !.op = "refresh", !.session = s]
      BY <1>2, <1>7 DEF refresh, refresh_replay
    <3> QED BY <3>1 DEF NoRequest
  <2> QED BY <1>1, <1>7, <2>1 DEF refresh, refresh_replay, Live
<1>8. ASSUME NEW q \in Procs, NEW a \in access, authenticate(q, a)
      PROVE  tx'[p].session \notin ended
  <2>1. tx'[p].session = a.session
    <3>1. tx'[p] = [NoRequest EXCEPT !.op = "serve", !.session = a.session,
                                     !.version = a.version, !.mfa = a.mfa]
      BY <1>2, <1>8 DEF authenticate
    <3> QED BY <3>1 DEF NoRequest
  <2> QED BY <1>1, <1>8, <2>1 DEF authenticate, Live
<1>9. ASSUME NEW q \in Procs,
             revoke_all(q) \/ \E i \in Identities, u \in Users : map_oidc_identity(q, i, u)
      PROVE  tx'[p].session \notin ended
  <2>1. tx'[p].session = NoSession
    <3>1. CASE revoke_all(q)
      <4>1. tx'[p] = [NoRequest EXCEPT !.op = "revoke_all", !.version = user.session_version,
                                       !.known = {s \in Sessions : sess[s].exists}]
        BY <1>2, <3>1 DEF revoke_all
      <4> QED BY <4>1 DEF NoRequest
    <3>2. ASSUME NEW i \in Identities, NEW u \in Users, map_oidc_identity(q, i, u)
          PROVE  tx'[p].session = NoSession
      <4>1. tx'[p] = [NoRequest EXCEPT !.op = "link", !.identity = i, !.owner = u]
        BY <1>2, <3>2 DEF map_oidc_identity
      <4> QED BY <4>1 DEF NoRequest
    <3> QED BY <1>9, <3>1, <3>2
  <2> QED BY <1>1, <2>1
<1>10. ~ ((\E s \in Sessions : session_expires(s)) \/ deactivate \/ UNCHANGED vars)
  BY DEF session_expires, deactivate, vars
<1> QED BY <1>4, <1>5, <1>6, <1>7, <1>8, <1>9, <1>10 DEF Next

\* The plan's immediate revocation, for any interleaving of requests.
THEOREM RevokedIsNotServed == Spec => RevocationImmediate
BY BeginStep, Invariance, PTL DEF Spec, RevocationImmediate

\* A request that begins, loads or fails writes neither a session nor an identity.
LEMMA OnlyCommitsWrite ==
  ASSUME NEW p \in Procs,
         \/ rollback(p) \/ commit_fails(p) \/ refresh_user(p) \/ authenticate_user(p)
         \/ begin_mfa_enrollment(p) \/ present_code_user(p)
         \/ revoke_all(p) \/ revoke_all_bulk(p)
         \/ \E s \in Sessions : login(p, s)
         \/ \E s \in Sessions, t \in 1..MaxTokens :
              t <= issued[s] /\ (refresh(p, s, t) \/ refresh_replay(p, s, t))
         \/ \E a \in access : authenticate(p, a)
         \/ \E permission \in Permissions : serve(p, permission)
         \/ \E op \in {"confirm", "verify"}, code \in Code : present_code(p, op, code)
         \/ \E i \in Identities, u \in Users : map_oidc_identity(p, i, u)
  PROVE  sess' = sess /\ confirmed' = confirmed /\ oidc' = oidc
BY DEF db, history, rollback, commit_fails, refresh_user, authenticate_user,
       begin_mfa_enrollment, revoke_all, revoke_all_bulk, login, refresh, refresh_replay,
       authenticate, serve, present_code, present_code_user, map_oidc_identity

\* Only map_oidc_commit writes an identity, and only one that is free.
LEMMA IdentityStep ==
  IInv /\ [Next]_vars => \A i \in Identities : oidc[i] # NoUser => oidc'[i] = oidc[i]
<1> SUFFICES ASSUME IInv, [Next]_vars, NEW i \in Identities, oidc[i] # NoUser
             PROVE  oidc'[i] = oidc[i]
  OBVIOUS
<1>1. ASSUME NEW p \in Procs, map_oidc_commit(p) PROVE oidc'[i] = oidc[i]
  <2>1. i # tx[p].identity
    BY <1>1 DEF map_oidc_commit, Unlinked
  <2> QED BY <1>1, <2>1 DEF map_oidc_commit, IInv, TypeOK
<1>2. ASSUME ~ \E p \in Procs : map_oidc_commit(p) PROVE oidc' = oidc
  <2>1. ASSUME NEW p \in Procs,
               \/ login_commit(p) \/ refresh_commit(p) \/ replay_commit(p) \/ logout(p)
               \/ enroll_commit(p) \/ present_code_commit(p) \/ revoke_all_commit(p)
        PROVE  oidc' = oidc
    BY <2>1 DEF login_commit, refresh_commit, replay_commit, logout, enroll_commit,
                present_code_commit, revoke_all_commit
  <2>2. CASE (\E s \in Sessions : session_expires(s)) \/ deactivate \/ UNCHANGED vars
    BY <2>2 DEF session_expires, deactivate, vars
  <2> QED BY <1>2, <2>1, <2>2, OnlyCommitsWrite DEF Next
<1> QED BY <1>1, <1>2

\* The unique constraint keeps an identity with its account, although the look-up
\* of map_oidc_identity takes no lock.
THEOREM IdentityStays == Spec => IdentityNeverMoves
BY IdentityStep, Invariance, PTL DEF Spec, IdentityNeverMoves

-----------------------------------------------------------------------------
(* Refinement of RevocableSessions *)

\* What the abstract variables see of the rows.
Same(S) ==
  \A s \in S : /\ sess'[s].exists <=> sess[s].exists
               /\ sess'[s].revoked <=> sess[s].revoked
               /\ sess'[s].mfa_verified <=> sess[s].mfa_verified

\* A step that leaves existence, revocation and the second factor as they are
\* is a stuttering step of RevocableSessions.
LEMMA AbstractStutter ==
  ASSUME Same(Sessions), confirmed' = confirmed
  PROVE  UNCHANGED Abstract!vars
BY DEF Same, Abstract!vars

\* login_commit opens its session.
LEMMA AbstractOpen ==
  ASSUME IInv, NEW p \in Procs, login_commit(p)
  PROVE  Abstract!Next
<1>1. PICK s \in Sessions : s = tx[p].session /\ ~sess[s].exists /\ ~sess[s].revoked
                                /\ ~sess[s].mfa_verified
  BY Loaded DEF login_commit, CallOK, SessionCallOK, IInv, RowsOK
<1>2. /\ sess'[s].exists /\ ~sess'[s].revoked /\ ~sess'[s].mfa_verified
      /\ \A t \in Sessions : t # s => sess'[t] = sess[t]
      /\ confirmed' = confirmed
  BY <1>1 DEF login_commit, IInv, TypeOK, NoRow, history
<1>3. Abstract!Open(s)
  BY <1>1, <1>2 DEF Abstract!Open
<1> QED BY <1>3 DEF Abstract!Next

\* A replayed token and a logout revoke one session.
LEMMA AbstractRevokeOne ==
  ASSUME IInv, NEW p \in Procs, replay_commit(p) \/ logout(p)
  PROVE  Abstract!Next
<1>0. tx[p].op \in {"refresh", "serve"}
  BY Loaded DEF replay_commit, logout, CallOK, StepOK
<1>1. PICK s \in Sessions : s = tx[p].session /\ sess[s].exists /\ sess[s] \in SessionRow
  BY <1>0, Loaded DEF CallOK, SessionCallOK, Bound
<1>2. /\ sess'[s].revoked /\ sess'[s].mfa_verified = sess[s].mfa_verified
      /\ \A t \in Sessions : t # s => sess'[t] = sess[t]
      /\ confirmed' = confirmed
  BY <1>1 DEF replay_commit, logout, IInv, TypeOK, SessionRow
<1>3. Abstract!Revoke({s})
  BY <1>1, <1>2 DEF Abstract!Revoke
<1> QED BY <1>3 DEF Abstract!Next

\* revoke_all revokes the sessions its UPDATE found.
LEMMA AbstractRevokeAll ==
  ASSUME IInv, NEW p \in Procs, revoke_all_commit(p)
  PROVE  Abstract!Next
<1>1. PICK S \in SUBSET Sessions : S = tx[p].rows
  BY RevokeAllRequest
<1>2. confirmed' = confirmed
  BY DEF revoke_all_commit
<1>3. \A s \in Sessions : /\ (sess'[s].exists <=> sess[s].exists)
                         /\ (sess'[s].mfa_verified <=> sess[s].mfa_verified)
                         /\ (sess'[s].revoked <=> sess[s].revoked \/ s \in S)
  BY <1>1, RevokedRows
<1>4. \A s \in S : sess[s].exists
  BY <1>1, RevokeAllRequest
<1>5. Abstract!Revoke(S)
  BY <1>2, <1>3, <1>4 DEF Abstract!Revoke
<1> QED BY <1>5 DEF Abstract!Next

\* An accepted code raises its session.
LEMMA AbstractRaise ==
  ASSUME IInv, NEW p \in Procs, present_code_commit(p)
  PROVE  Abstract!Next
<1>1. PICK s \in Sessions : s = tx[p].session /\ sess[s].exists /\ sess[s] \in SessionRow
  BY Loaded DEF present_code_commit, CallOK, SessionCallOK, Bound
<1> DEFINE row == [RotatedRow(sess[s], issued'[s]) EXCEPT !.mfa_verified = TRUE]
<1>2. row.exists /\ row.mfa_verified /\ (row.revoked <=> sess[s].revoked)
  BY <1>1 DEF SessionRow, RotatedRow
<1>3. sess' = [sess EXCEPT ![s] = row]
  BY <1>1 DEF present_code_commit
<1> HIDE DEF row
<1>4. /\ sess'[s].exists /\ sess'[s].mfa_verified /\ (sess'[s].revoked <=> sess[s].revoked)
      /\ \A t \in Sessions : t # s => sess'[t] = sess[t]
  BY <1>2, <1>3 DEF IInv, TypeOK
<1>5. confirmed' = TRUE
  BY Loaded DEF present_code_commit, CallOK, SessionCallOK, IInv, TypeOK
<1>6. Abstract!Raise(s)
  BY <1>1, <1>4, <1>5 DEF Abstract!Raise
<1> QED BY <1>6 DEF Abstract!Next

\* refresh_commit rotates the token: the session is what it was.
LEMMA AbstractRotate ==
  ASSUME IInv, NEW p \in Procs, refresh_commit(p)
  PROVE  UNCHANGED Abstract!vars
<1>1. PICK s \in Sessions : s = tx[p].session /\ sess[s].exists /\ sess[s] \in SessionRow
  BY Loaded DEF refresh_commit, CallOK, SessionCallOK, Bound
<1> DEFINE row == RotatedRow(sess[s], issued'[s])
<1>2. /\ row.exists /\ (row.mfa_verified <=> sess[s].mfa_verified)
      /\ (row.revoked <=> sess[s].revoked)
  BY <1>1 DEF SessionRow, RotatedRow
<1>3. sess' = [sess EXCEPT ![s] = row] /\ confirmed' = confirmed
  BY <1>1 DEF refresh_commit, history
<1> HIDE DEF row
<1>4. Same(Sessions)
  BY <1>1, <1>2, <1>3 DEF IInv, TypeOK, Same
<1> QED BY <1>3, <1>4, AbstractStutter

\* Requests, however they interleave, implement RevocableSessions.
THEOREM SessionsRefinement == Spec => ImplementsRevocableSessions
<1>1. Init => Abstract!Init
  BY DEF Init, Abstract!Init, NoRow
<1>2. IInv /\ [Next]_vars => [Abstract!Next]_(Abstract!vars)
  <2> SUFFICES ASSUME IInv, [Next]_vars PROVE [Abstract!Next]_(Abstract!vars)
    OBVIOUS
  <2>1. ASSUME NEW p \in Procs,
               \/ login_commit(p) \/ refresh_commit(p) \/ replay_commit(p) \/ logout(p)
               \/ present_code_commit(p) \/ revoke_all_commit(p)
        PROVE  [Abstract!Next]_(Abstract!vars)
    BY <2>1, AbstractOpen, AbstractRotate, AbstractRevokeOne, AbstractRaise, AbstractRevokeAll
  <2>2. ASSUME ~ \E p \in Procs : \/ login_commit(p) \/ refresh_commit(p) \/ replay_commit(p)
                                  \/ logout(p) \/ present_code_commit(p) \/ revoke_all_commit(p)
        PROVE  sess' = sess /\ confirmed' = confirmed
    <3>1. ASSUME NEW p \in Procs, enroll_commit(p) \/ map_oidc_commit(p)
          PROVE  sess' = sess /\ confirmed' = confirmed
      BY <3>1 DEF enroll_commit, map_oidc_commit, history
    <3>2. CASE (\E s \in Sessions : session_expires(s)) \/ deactivate \/ UNCHANGED vars
      BY <3>2 DEF session_expires, deactivate, vars, history
    <3> QED BY <2>2, <3>1, <3>2, OnlyCommitsWrite DEF Next
  <2>3. ASSUME sess' = sess, confirmed' = confirmed PROVE UNCHANGED Abstract!vars
    BY <2>3, AbstractStutter DEF Same
  <2> QED BY <2>1, <2>2, <2>3
<1> QED BY <1>1, <1>2, Invariance, PTL DEF Spec, ImplementsRevocableSessions, Abstract!Spec
=============================================================================
