------------------------------- MODULE Access -------------------------------
(***************************************************************************)
(* Who may come in (services/app/src/auth, rbac, teams, ws-tickets and     *)
(* their routes) with the development headers off: passwords, TOTP codes,  *)
(* magic links, Google, invites, sessions, API keys, socket tickets.       *)
(* Handlers read, wait and write, one statement at a time.                 *)
(*                                                                         *)
(* Sessions, links, invites, keys, tickets and TOTP secrets are unguessable*)
(* and fresh: numbers handed out in order.  A code is the secret it was    *)
(* computed from, so a code of a neighbouring time step is the same code.  *)
(* Tokens end after some time: Expire ends any of them at any time.        *)
(***************************************************************************)
EXTENDS Requests, FiniteSets, Integers

CONSTANTS
  Members,     \* bound: rows of members
  Founder,     \* the admin there is from the start
  SeatLimit,   \* the seats of the org's plan; -1: unlimited
  LoginLimit,  \* attempts per address and member in a window
  MaxTokens,   \* bound: tokens handed out
  MaxUpsets    \* bound: expiries, restarts and requests that die halfway

ASSUME AccessAssumption ==
  /\ Founder \in Members /\ SeatLimit \in Int /\ LoginLimit \in Nat \ {0}
  /\ MaxTokens \in Nat \ {0, 1}

MATRIX == [viewer |-> {}, member |-> {"thread:create", "message:post", "dm:start"},
           admin |-> {"channel:create", "channel:delete", "channel:manage", "thread:create",
                      "message:post", "dm:start", "agent:share", "memory:write:org",
                      "team:manage", "apikey:manage"}]

VARIABLES
  member,   \* members: the rows there are
  session,  \* sessions: token -> member
  link,     \* magic_links: token -> member, and whether used_at is set
  invite,   \* invites: token -> status and the member it made
  apiKey,   \* api_keys: token -> revoked
  team,     \* team_members of one team: the humans in it
  ticket,   \* socket tickets in memory: token -> member
  attempts, \* login attempts in memory, in the current window
  expired,  \* tokens whose time is over
  issued,   \* the last token handed out
  sockets,  \* the sockets that were opened, each by which ticket (0: by a session)
  entries,  \* how each session was granted
  upsets

accessVars == <<member, session, link, invite, apiKey, team, ticket, attempts,
                expired, issued, sockets, entries, upsets>>

Fresh == issued + 1
Tokens == 1..MaxTokens
NoSecret == 0
MemberRow == [role : DOMAIN MATRIX, password : BOOLEAN, secret : 0..MaxTokens, mfa : BOOLEAN]
LinkRow == [member : Members, used : BOOLEAN]
InviteRow == [status : {"pending", "accepted", "revoked"}, role : DOMAIN MATRIX,
              acceptedMember : Members \cup {"none"}]

can(role, action) == action \in MATRIX[role]
\* An API key is no member: it is treated as one without special rights.
roleOf(who) == IF who \in DOMAIN member THEN member[who].role ELSE "member"

AccessInit ==
  /\ \E mfa \in BOOLEAN :
       member = Just(Founder, [role |-> "admin", password |-> TRUE,
                               secret |-> IF mfa THEN 2 ELSE NoSecret, mfa |-> mfa])
  /\ session = Just(1, Founder) /\ link = <<>> /\ invite = <<>> /\ apiKey = <<>>
  /\ ticket = <<>> /\ attempts = <<>> /\ team = {} /\ expired = {} /\ issued = 2
  /\ sockets = {} /\ entries = {} /\ upsets = 0

-----------------------------------------------------------------------------
(* The preHandler of every route that is not public. *)

resolveSession(token) == token \in DOMAIN session \ expired
resolveApiKey(token) == token \in DOMAIN apiKey /\ ~apiKey[token]

Authenticate(q, calls) ==
  /\ \E call \in calls : Called(q, call)
  /\ \E token \in DOMAIN session \cup DOMAIN apiKey :
       IF resolveSession(token)
       THEN GotoWith(q, "authed", [token |-> token, who |-> session[token]])
       ELSE IF resolveApiKey(token)
       THEN GotoWith(q, "authed", [token |-> token, who |-> "apikey"])
       ELSE Return(q)
  /\ UNCHANGED accessVars

Authed(q, call) == At(q, "authed") /\ req[q].call = call
\* What most routes of the org ask next; they answer 403 to everybody else.
MayManage(q, action) == can(roleOf(req[q].who), action)
Forbidden(q) == ~MayManage(q, "team:manage") /\ Return(q) /\ UNCHANGED accessVars

-----------------------------------------------------------------------------
(* Sessions. *)

\* createSession.  The entry says by what: the password (0), Google (-1), a link;
\* before is the member's row when the request arrived.
Admit(m, how, before, code) ==
  /\ Fresh <= MaxTokens /\ issued' = Fresh
  /\ session' = Put(session, Fresh, m)
  /\ entries' = entries \cup
       {[token |-> Fresh, by |-> how, before |-> before, now |-> member[m], code |-> code]}

Logout(q) ==
  /\ Authed(q, "logout") /\ Return(q)
  /\ session' = [s \in DOMAIN session \ {req[q].token} |-> session[s]]
  /\ UNCHANGED <<member, link, invite, apiKey, team, ticket, attempts, expired, issued,
                 sockets, entries, upsets>>

\* One's own sessions only; another's is not found.
RevokeSessions(q) ==
  /\ Authed(q, "revokeSessions") /\ Return(q)
  /\ LET own == {s \in DOMAIN session : session[s] = req[q].who}
     IN  \E gone \in {own \ {req[q].token}} \cup {{s} : s \in own} :
           session' = [s \in DOMAIN session \ gone |-> session[s]]
  /\ UNCHANGED <<member, link, invite, apiKey, team, ticket, attempts, expired, issued,
                 sockets, entries, upsets>>

-----------------------------------------------------------------------------
(* Logging in. *)

\* A code is right for the secret it was computed from.
verifyTotp(secret, code) == secret # NoSecret /\ code = secret
generateSecret == Fresh

allow(m) == m \notin DOMAIN attempts \/ attempts[m] < LoginLimit
verifyCredentials(m) == m \in DOMAIN member /\ member[m].password

\* POST /auth/login: the limit counts attempts before anything is checked.
Login(q) ==
  /\ \E m \in Members :
       /\ attempts' = IF ~allow(m) THEN attempts
                       ELSE Put(attempts, m, IF m \in DOMAIN attempts THEN attempts[m] + 1 ELSE 1)
       /\ IF allow(m) /\ verifyCredentials(m)
          THEN \E code \in 0..issued :
                 Enter(q, "login", [at |-> "mfa", member |-> m, code |-> code,
                                    link |-> 0, before |-> member[m]])
          ELSE Called(q, "login") /\ Return(q)
  /\ UNCHANGED <<member, session, link, invite, apiKey, team, ticket, expired, issued,
                 sockets, entries, upsets>>

\* Mutant: a link counts as the second factor.
MfaGate_PasswordOnly(q) ==
  /\ At(q, "mfa")
  /\ Goto(q, IF req[q].link # 0 THEN "verify"
             ELSE IF member[req[q].member].mfa THEN "code" ELSE "enter")
  /\ UNCHANGED accessVars

\* The MFA gate of login and of the magic link: mfaRequired, then verifyMfaCode,
\* which reads the secret as it is by then.
MfaGate(q) ==
  /\ At(q, "mfa")
  /\ Goto(q, IF member[req[q].member].mfa THEN "code"
             ELSE IF req[q].link = 0 THEN "enter" ELSE "verify")
  /\ UNCHANGED accessVars

CheckCode(q) ==
  /\ At(q, "code")
  /\ IF verifyTotp(member[req[q].member].secret, req[q].code)
     THEN Goto(q, IF req[q].link = 0 THEN "enter" ELSE "verify")
     ELSE Return(q)
  /\ UNCHANGED accessVars

EnterSession(q) ==
  /\ At(q, "enter") /\ Return(q)
  /\ Admit(req[q].member, req[q].link, req[q].before, req[q].code)
  /\ UNCHANGED <<member, link, invite, apiKey, team, ticket, attempts, expired, sockets, upsets>>

RequestMagicLink(q) ==
  /\ Called(q, "requestLink") /\ Return(q)
  /\ Fresh <= MaxTokens /\ issued' = Fresh
  /\ \E m \in DOMAIN member : link' = Put(link, Fresh, [member |-> m, used |-> FALSE])
  /\ UNCHANGED <<member, session, invite, apiKey, team, ticket, attempts, expired,
                 sockets, entries, upsets>>

GoodLink(l) == l \in DOMAIN link \ expired /\ ~link[l].used

\* peekMagicLinkMember: a link that is not good skips the gate (and fails next).
PeekMagicLink(q) ==
  /\ \E l \in DOMAIN link, code \in 0..issued :
       Enter(q, "verifyLink", [at |-> IF GoodLink(l) THEN "mfa" ELSE "verify",
              link |-> l, member |-> link[l].member, code |-> code,
              before |-> member[link[l].member]])
  /\ UNCHANGED accessVars

\* verifyMagicLink reads the link again, and then writes used_at on it.
VerifyMagicLink(q) ==
  /\ At(q, "verify")
  /\ IF GoodLink(req[q].link) THEN Goto(q, "use") ELSE Return(q)
  /\ UNCHANGED accessVars
UseMagicLink(q) ==
  /\ At(q, "use") /\ Goto(q, "enter")
  /\ link' = [link EXCEPT ![req[q].link].used = TRUE]
  /\ UNCHANGED <<member, session, invite, apiKey, team, ticket, attempts, expired, issued,
                 sockets, entries, upsets>>

\* The emails Google vouches for.
exchange == Members

\* The Google callback: a member by email, or a new one; MFA is Google's matter.
HandleGoogleCallback(q) ==
  /\ \E m \in exchange : Enter(q, "google", [at |-> IF m \in DOMAIN member THEN "sso" ELSE "join",
                                            member |-> m])
  /\ UNCHANGED accessVars
JoinBySso(q) ==
  /\ At(q, "join")
  /\ \E m \in Members \ DOMAIN member :
       /\ member' = Put(member, m, [role |-> "member", password |-> FALSE,
                                  secret |-> NoSecret, mfa |-> FALSE])
       /\ GotoWith(q, "sso", [member |-> m])
  /\ UNCHANGED <<session, link, invite, apiKey, team, ticket, attempts, expired, issued,
                 sockets, entries, upsets>>
EnterBySso(q) ==
  /\ At(q, "sso") /\ Return(q)
  /\ Admit(req[q].member, -1, member[req[q].member], 0)
  /\ UNCHANGED <<member, link, invite, apiKey, team, ticket, attempts, expired, sockets, upsets>>

-----------------------------------------------------------------------------
(* TOTP. *)

UpdateMember(m, secret, mfa) ==
  /\ member' = [member EXCEPT ![m].secret = secret, ![m].mfa = mfa]
  /\ UNCHANGED <<session, link, invite, apiKey, team, ticket, attempts, expired,
                 sockets, entries, upsets>>

EnrollMfa(q) ==
  /\ Authed(q, "enroll") /\ req[q].who \in DOMAIN member /\ Return(q)
  /\ Fresh <= MaxTokens /\ issued' = Fresh
  /\ UpdateMember(req[q].who, generateSecret, FALSE)

\* confirmMfa reads the secret the code is for, and sets the flag later.
ConfirmMfa(q) ==
  /\ Authed(q, "confirm")
  /\ \E code \in 0..issued :
       IF req[q].who \in DOMAIN member /\ verifyTotp(member[req[q].who].secret, code)
       THEN Goto(q, "enable") ELSE Return(q)
  /\ UNCHANGED accessVars
EnableMfa(q) ==
  /\ At(q, "enable") /\ Return(q) /\ UNCHANGED issued
  /\ UpdateMember(req[q].who, member[req[q].who].secret, TRUE)

DisableMfa(q) ==
  /\ Authed(q, "disable") /\ req[q].who \in DOMAIN member /\ Return(q)
  /\ UNCHANGED issued
  /\ UpdateMember(req[q].who, NoSecret, FALSE)

-----------------------------------------------------------------------------
(* Invites, keys, teams: for admins. *)

\* The seats are counted before the invite is written; an invite that is out
\* does not count as a seat.
CreateInvite(q) ==
  /\ Authed(q, "invite")
  /\ IF MayManage(q, "team:manage") /\ (SeatLimit < 0 \/ Cardinality(DOMAIN member) < SeatLimit)
     THEN Goto(q, "writeInvite") ELSE Return(q)
  /\ UNCHANGED accessVars
WriteInvite(q) ==
  /\ At(q, "writeInvite") /\ Return(q)
  /\ Fresh <= MaxTokens /\ issued' = Fresh
  /\ \E role \in {"admin", "member"} :
       invite' = Put(invite, Fresh, [status |-> "pending", role |-> role,
                                     acceptedMember |-> "none"])
  /\ UNCHANGED <<member, session, link, apiKey, team, ticket, attempts, expired,
                 sockets, entries, upsets>>

\* POST /invites/accept, public: the pending invite, the member, the invite.
AcceptInvite(q) ==
  /\ \E i \in DOMAIN invite :
       IF invite[i].status = "pending"
       THEN Enter(q, "accept", [at |-> "joinInvite", invite |-> i])
       ELSE Called(q, "accept") /\ Return(q)
  /\ UNCHANGED accessVars
JoinByInvite(q) ==
  /\ At(q, "joinInvite")
  /\ \E m \in Members \ DOMAIN member, password \in BOOLEAN :
       /\ member' = Put(member, m, [role |-> invite[req[q].invite].role, password |-> password,
                                  secret |-> NoSecret, mfa |-> FALSE])
       /\ GotoWith(q, "closeInvite", [member |-> m])
  /\ UNCHANGED <<session, link, invite, apiKey, team, ticket, attempts, expired, issued,
                 sockets, entries, upsets>>
CloseInvite(q) ==
  /\ At(q, "closeInvite") /\ Return(q)
  /\ invite' = [invite EXCEPT ![req[q].invite].status = "accepted",
                              ![req[q].invite].acceptedMember = req[q].member]
  /\ UNCHANGED <<member, session, link, apiKey, team, ticket, attempts, expired, issued,
                 sockets, entries, upsets>>

\* Whatever the status is.
RevokeInvite(q) ==
  /\ Authed(q, "revokeInvite")
  /\ \/ Forbidden(q)
     \/ /\ MayManage(q, "team:manage") /\ Return(q)
        /\ \E i \in DOMAIN invite : invite' = [invite EXCEPT ![i].status = "revoked"]
        /\ UNCHANGED <<member, session, link, apiKey, team, ticket, attempts, expired, issued,
                       sockets, entries, upsets>>

IssueApiKey(q) ==
  /\ Authed(q, "issueKey") /\ Return(q)
  /\ IF MayManage(q, "apikey:manage")
     THEN Fresh <= MaxTokens /\ issued' = Fresh /\ apiKey' = Put(apiKey, Fresh, FALSE)
     ELSE UNCHANGED <<issued, apiKey>>
  /\ UNCHANGED <<member, session, link, invite, team, ticket, attempts, expired,
                 sockets, entries, upsets>>
RevokeApiKey(q) ==
  /\ Authed(q, "revokeKey") /\ Return(q)
  /\ \E k \in DOMAIN apiKey :
       apiKey' = [apiKey EXCEPT ![k] = @ \/ MayManage(q, "apikey:manage")]
  /\ UNCHANGED <<member, session, link, invite, team, ticket, attempts, expired, issued,
                 sockets, entries, upsets>>

\* A member of the org; adding again, or removing nobody, changes nothing.
EditTeam(q) ==
  /\ Authed(q, "team")
  /\ \/ Forbidden(q)
     \/ /\ MayManage(q, "team:manage") /\ Return(q)
        /\ \E m \in Members :
             \/ team' = IF m \in DOMAIN member THEN team \cup {m} ELSE team
             \/ team' = team \ {m}
        /\ UNCHANGED <<member, session, link, invite, apiKey, ticket, attempts, expired, issued,
                       sockets, entries, upsets>>

-----------------------------------------------------------------------------
(* Sockets. *)

IssueWsTicket(q) ==
  /\ Authed(q, "ticket") /\ Return(q)
  /\ Fresh <= MaxTokens /\ issued' = Fresh
  /\ ticket' = Put(ticket, Fresh, req[q].who)
  /\ UNCHANGED <<member, session, link, invite, apiKey, team, attempts, expired,
                 sockets, entries, upsets>>

\* redeemWsTicket: deleted on read, whether or not its time is over.
Redeem(t) == ticket' = [s \in DOMAIN ticket \ {t} |-> ticket[s]]

\* GET /ws: the route is behind the preHandler too, so a bearer came with it; the
\* thread is then looked up in the org, here the only one.
OpenSocket(q) ==
  /\ Authed(q, "socket")
  /\ \/ \E t \in DOMAIN ticket :
          /\ Redeem(t)
          /\ IF t \in expired THEN Return(q) ELSE GotoWith(q, "subscribe", [by |-> t])
     \/ \E s \in DOMAIN session :
          /\ IF resolveSession(s) THEN GotoWith(q, "subscribe", [by |-> 0]) ELSE Return(q)
          /\ UNCHANGED ticket
  /\ UNCHANGED <<member, session, link, invite, apiKey, team, attempts, expired, issued,
                 sockets, entries, upsets>>
Subscribe(q) ==
  /\ At(q, "subscribe") /\ Return(q)
  /\ sockets' = sockets \cup {[by |-> req[q].by, request |-> q]}
  /\ UNCHANGED <<member, session, link, invite, apiKey, team, ticket, attempts, expired, issued,
                 entries, upsets>>

-----------------------------------------------------------------------------
(* Time and failure. *)

Upset == upsets < MaxUpsets /\ upsets' = upsets + 1

Expire(token) ==
  /\ Upset /\ token \in 1..issued \ expired /\ expired' = expired \cup {token}
  /\ UNCHANGED <<req, member, session, link, invite, apiKey, team, ticket, attempts, issued,
                 sockets, entries>>

NextWindow ==
  /\ attempts # <<>> /\ attempts' = <<>>
  /\ UNCHANGED <<req, member, session, link, invite, apiKey, team, ticket, expired, issued,
                 sockets, entries, upsets>>

\* The server restarts: requests die, what was in memory is gone.
Restart ==
  /\ Upset /\ ticket' = <<>> /\ attempts' = <<>> /\ DieAll
  /\ UNCHANGED <<member, session, link, invite, apiKey, team, expired, issued, sockets, entries>>

AuthedCalls == {"logout", "revokeSessions", "enroll", "confirm", "disable", "invite",
                "revokeInvite", "issueKey", "revokeKey", "team", "ticket", "socket"}

AuthRoutes(q) ==
  \/ Login(q) \/ MfaGate(q) \/ CheckCode(q) \/ EnterSession(q)
  \/ RequestMagicLink(q) \/ PeekMagicLink(q) \/ VerifyMagicLink(q) \/ UseMagicLink(q)
  \/ IssueWsTicket(q) \/ Logout(q)
  \/ EnrollMfa(q) \/ ConfirmMfa(q) \/ EnableMfa(q) \/ DisableMfa(q)
  \/ HandleGoogleCallback(q) \/ JoinBySso(q) \/ EnterBySso(q)
InviteRoutes(q) ==
  \/ CreateInvite(q) \/ WriteInvite(q) \/ RevokeInvite(q)
  \/ AcceptInvite(q) \/ JoinByInvite(q) \/ CloseInvite(q)
ApiKeyRoutes(q) == IssueApiKey(q) \/ RevokeApiKey(q)
TeamRoutes(q) == EditTeam(q)
SessionRoutes(q) == RevokeSessions(q)

AccessHandler(q) ==
  \/ Authenticate(q, AuthedCalls) \/ AuthRoutes(q) \/ SessionRoutes(q) \/ InviteRoutes(q)
  \/ ApiKeyRoutes(q) \/ TeamRoutes(q) \/ OpenSocket(q) \/ Subscribe(q)

-----------------------------------------------------------------------------
(* Properties. *)

\* Rows have their types; every token in a table was handed out.
AccessTypeOK ==
  /\ DOMAIN member \subseteq Members /\ \A m \in DOMAIN member : member[m] \in MemberRow
  /\ issued \in 0..MaxTokens
  /\ UNION {DOMAIN session, DOMAIN link, DOMAIN invite, DOMAIN apiKey, DOMAIN ticket}
       \subseteq 1..issued
  /\ \A s \in DOMAIN session : session[s] \in DOMAIN member
  /\ \A l \in DOMAIN link : link[l] \in LinkRow
  /\ \A i \in DOMAIN invite : invite[i] \in InviteRow
  /\ \A m \in DOMAIN attempts : attempts[m] \in 1..LoginLimit
  /\ team \subseteq DOMAIN member

\* Nobody whose MFA was on, with one secret, all the time from the request's
\* arrival to the session gets in by password or link without its code, however
\* enrolling, confirming and disabling interleave with the login.
CodeWasChecked ==
  \A e \in entries :
    e.by >= 0 /\ e.before.mfa /\ e.before.secret # NoSecret /\ e.before = e.now =>
      e.code = e.now.secret

\* A ticket opens at most one socket ("single-use", auth-routes.ts:160), also when
\* two sockets come with it at once.
TicketOpensOnce ==
  \A v, w \in sockets : v.by = w.by /\ v.by # 0 => v.request = w.request

\* An invite shown as accepted made the member it names, with the role it was
\* for, though the handler may die between the two.
AcceptedHasMember ==
  \A i \in DOMAIN invite : invite[i].status = "accepted" =>
    /\ invite[i].acceptedMember \in DOMAIN member
    /\ member[invite[i].acceptedMember].role = invite[i].role

\* The doors hold against requests that overlap, expire and die halfway: the code is
\* asked for, a ticket opens once, an acceptance is a member.
DoorsHold == AccessTypeOK /\ CodeWasChecked /\ TicketOpensOnce /\ AcceptedHasMember

\* What the code does not keep: MFA that is disabled between the two statements of
\* a confirmation is on, without a secret, and no code is right ("A missing secret
\* or wrong code throws "invalid code" (MFA stays disabled)", mfa.ts:31-33).
MfaHasSecret == \A m \in DOMAIN member : member[m].mfa => member[m].secret # NoSecret

\* One link lets in once ("Single-use: mark used atomically-guarded by the usedAt
\* IS NULL we already checked", magic-link.ts:71-72).
LinkSpentOnce ==
  \A l \in DOMAIN link :
    Cardinality({e \in entries : e.by = l}) <= 1

=============================================================================
