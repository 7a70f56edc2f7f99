------------------------------ MODULE Accounts ------------------------------
(***************************************************************************)
(* Staff accounts of one restaurant and the sessions opened with them:     *)
(* login, refresh-token rotation, logout and password reset                *)
(* (auth_service), the accounts an administrator creates, switches off and *)
(* back on (staff_service), and what the platform's operator changes       *)
(* (superadmin_service).                                                   *)
(*                                                                         *)
(* PostgreSQL at READ COMMITTED: an UPDATE works on the rows its snapshot  *)
(* showed, waits for those another transaction holds, and looks at each of *)
(* them again when it gets it; a row inserted meanwhile escapes it.  So a  *)
(* request keeps in `rows' the rows its UPDATE has seen.  The handlers of  *)
(* one statement and a commit are one action.  An UPDATE takes its rows    *)
(* together; a token's expiry ends it as a logout does.  Inserting a token *)
(* or a link also waits for a login that holds the user row FOR UPDATE:    *)
(* the foreign key needs a KEY SHARE lock on that row.                     *)
(***************************************************************************)
EXTENDS Naturals, FiniteSets

CONSTANTS
    Users, Emails,  \* users rows that may be inserted, addresses
    Tokens, Links,  \* refresh_tokens and password_reset_tokens rows
    Procs,          \* requests served at the same time
    Nobody          \* no user, no token, no request

ASSUME AccountsAssumption == Nobody \notin Users \cup Emails \cup Tokens \cup Procs

VARIABLES
    user,           \* [Users -> [email, role, active]], active FALSE and no email before the insert
    open,           \* restaurants.is_active, FALSE before the insert
    token,          \* [Tokens -> [user, live, parent]]; no user before the insert
    link,           \* [Links -> [user, live, used]]; used counts the resets made with it
    lock,           \* [Users \cup Tokens \cup Links -> the request that holds the row]
    proc            \* [Procs -> [at, user, row, rows]]

accVars == <<user, open, token, link, lock, proc>>

NoRequest == [at |-> "idle", user |-> Nobody, row |-> Nobody, rows |-> {}]

Created(u) == user[u].email # Nobody

AccInit ==
    /\ user = [u \in Users |-> [email |-> Nobody, role |-> "ADMIN", active |-> FALSE]]
    /\ open = FALSE
    /\ token = [t \in Tokens |-> [user |-> Nobody, live |-> FALSE, parent |-> Nobody]]
    /\ link = [l \in Links |-> [user |-> Nobody, live |-> FALSE, used |-> 0]]
    /\ lock = [r \in Users \cup Tokens \cup Links |-> Nobody]
    /\ proc = [p \in Procs |-> NoRequest]

LiveTokens(u) == {t \in Tokens : token[t].user = u /\ token[t].live}

LiveLinks(u) == {l \in Links : link[l].user = u /\ link[l].live}

RowsFree(rows) == \A r \in rows : lock[r] = Nobody

TakeRows(p, rows) == lock' = [r \in DOMAIN lock |-> IF r \in rows THEN p ELSE lock[r]]

\* Commit or rollback: the request is over and its locks are gone.
EndRequest(p) ==
    /\ lock' = [r \in DOMAIN lock |-> IF lock[r] = p THEN Nobody ELSE lock[r]]
    /\ proc' = [proc EXCEPT ![p] = NoRequest]

GoTo(p, at, u, row, rows) ==
    proc' = [proc EXCEPT ![p] = [at |-> at, user |-> u, row |-> row, rows |-> rows]]

\* `rows' are revoked and one token inserted, born of `parent' (Nobody: a login).
Reissue(rows, u, parent) ==
    \E t \in {s \in Tokens : token[s].user = Nobody} :
        token' = [s \in Tokens |->
                    IF s = t THEN [user |-> u, live |-> TRUE, parent |-> parent]
                    ELSE IF s \in rows THEN [token[s] EXCEPT !.live = FALSE]
                    ELSE token[s]]

-----------------------------------------------------------------------------
(* Login *)

\* authenticate: an open restaurant, an active account, the right password.
Authenticate(p, u) ==
    /\ proc[p].at = "idle"
    /\ open
    /\ user[u].active
    /\ GoTo(p, "login", u, Nobody, {})
    /\ UNCHANGED <<user, open, token, link, lock>>

\* Mutant: two logins of one account are not serialised by its row.
LockNothing(p) ==
    /\ proc[p].at = "login"
    /\ GoTo(p, "issue", proc[p].user, Nobody, LiveTokens(proc[p].user))
    /\ UNCHANGED <<user, open, token, link, lock>>

\* The user row is locked, and the revoking UPDATE takes its snapshot.
LockAccount(p) ==
    /\ proc[p].at = "login"
    /\ RowsFree({proc[p].user})
    /\ TakeRows(p, {proc[p].user})
    /\ GoTo(p, "issue", proc[p].user, Nobody, LiveTokens(proc[p].user))
    /\ UNCHANGED <<user, open, token, link>>

\* The account's other sessions end and the new one begins.
IssueTokens(p) ==
    /\ proc[p].at = "issue"
    /\ RowsFree(proc[p].rows)
    /\ Reissue(proc[p].rows, proc[p].user, Nobody)
    /\ EndRequest(p)
    /\ UNCHANGED <<user, open, link>>

-----------------------------------------------------------------------------
(* Rotation and logout *)

\* The presented token is locked, if it is still unrevoked, and its user read.
LockToken(p, t) ==
    /\ proc[p].at = "idle"
    /\ token[t].live
    /\ RowsFree({t})
    /\ TakeRows(p, {t})
    /\ GoTo(p, IF user[token[t].user].active THEN "rotate" ELSE "eject", token[t].user, t, {})
    /\ UNCHANGED <<user, open, token, link>>

\* The old token is revoked and its successor inserted.
Rotate(p) ==
    /\ proc[p].at = "rotate"
    /\ RowsFree({proc[p].user})
    /\ Reissue({proc[p].row}, proc[p].user, proc[p].row)
    /\ EndRequest(p)
    /\ UNCHANGED <<user, open, link>>

\* A switched-off account loses the token it presents.
Eject(p) ==
    /\ proc[p].at = "eject"
    /\ token' = [token EXCEPT ![proc[p].row].live = FALSE]
    /\ EndRequest(p)
    /\ UNCHANGED <<user, open, link>>

\* revoke_refresh; the refresh token's own expiry looks the same.
Logout(t) ==
    /\ token[t].live
    /\ RowsFree({t})
    /\ token' = [token EXCEPT ![t].live = FALSE]
    /\ UNCHANGED <<user, open, link, lock, proc>>

-----------------------------------------------------------------------------
(* Password reset *)

\* request_password_reset: the UPDATE that retires the older links starts ...
Forget(p, u) ==
    /\ proc[p].at = "idle"
    /\ open
    /\ user[u].active
    /\ GoTo(p, "mail", u, Nobody, LiveLinks(u))
    /\ UNCHANGED <<user, open, token, link, lock>>

\* ... and the new link is committed, then mailed.
MailLink(p) ==
    /\ proc[p].at = "mail"
    /\ RowsFree(proc[p].rows \cup {proc[p].user})
    /\ \E l \in {k \in Links : link[k].user = Nobody} :
         link' = [k \in Links |->
                    IF k = l THEN [user |-> proc[p].user, live |-> TRUE, used |-> 0]
                    ELSE IF k \in proc[p].rows THEN [link[k] EXCEPT !.live = FALSE]
                    ELSE link[k]]
    /\ EndRequest(p)
    /\ UNCHANGED <<user, open, token>>

\* Mutant: the link is read without FOR UPDATE.
ReadLink(p, l) ==
    /\ proc[p].at = "idle"
    /\ link[l].live
    /\ user[link[l].user].active
    /\ GoTo(p, "reset", link[l].user, l, LiveTokens(link[l].user))
    /\ UNCHANGED <<user, open, token, link, lock>>

\* reset_password: an unused link of an active account is locked, and the
\* UPDATE that revokes the sessions takes its snapshot.
LockLink(p, l) ==
    /\ proc[p].at = "idle"
    /\ link[l].live
    /\ RowsFree({l})
    /\ user[link[l].user].active
    /\ TakeRows(p, {l})
    /\ GoTo(p, "reset", link[l].user, l, LiveTokens(link[l].user))
    /\ UNCHANGED <<user, open, token, link>>

\* That UPDATE runs before the flush that writes the password to the user row.
RevokeSessions(p) ==
    /\ proc[p].at = "reset"
    /\ RowsFree(proc[p].rows)
    /\ TakeRows(p, proc[p].rows)
    /\ proc' = [proc EXCEPT ![p].at = "password"]
    /\ UNCHANGED <<user, open, token, link>>

\* Password, link and sessions are committed together.
SetPassword(p) ==
    /\ proc[p].at = "password"
    /\ RowsFree({proc[p].user})
    /\ token' = [t \in Tokens |-> IF t \in proc[p].rows THEN [token[t] EXCEPT !.live = FALSE]
                                  ELSE token[t]]
    /\ link' = [link EXCEPT ![proc[p].row].live = FALSE, ![proc[p].row].used = @ + 1]
    /\ EndRequest(p)
    /\ UNCHANGED <<user, open>>

\* A link's 60 minutes pass, unless a reset has already looked at it.
LinkExpires(l) ==
    /\ link[l].live
    /\ RowsFree({l})
    /\ link' = [link EXCEPT ![l].live = FALSE]
    /\ UNCHANGED <<user, open, token, lock, proc>>

\* A login holds the user row and wants the tokens; a reset, or a rotation,
\* holds tokens and wants the user row: PostgreSQL aborts one of the two.
AbortDeadlock(p, q) ==
    /\ proc[p].at = "issue"
    /\ proc[q].at \in {"password", "rotate"}
    /\ proc[p].user = proc[q].user
    /\ \E r \in proc[p].rows : lock[r] = q
    /\ \E victim \in {p, q} : EndRequest(victim)
    /\ UNCHANGED <<user, open, token, link>>

-----------------------------------------------------------------------------
(* Accounts *)

Holders(e) == {u \in Users : user[u].email = e}

ActiveHolders(e) == {u \in Holders(e) : user[u].active}

\* create_restaurant: the first administrator is inserted with it.
CreateRestaurant(u, e) ==
    /\ \A v \in Users : ~Created(v)
    /\ user' = [user EXCEPT ![u] = [email |-> e, role |-> "ADMIN", active |-> TRUE]]
    /\ open' = TRUE
    /\ UNCHANGED <<token, link, lock, proc>>

\* create_staff: only active rows block an address (and the partial index).
CreateStaff(u, e, role) ==
    /\ ~Created(u) /\ \E admin \in Users : Created(admin)
    /\ ActiveHolders(e) = {}
    /\ user' = [user EXCEPT ![u] = [email |-> e, role |-> role, active |-> TRUE]]
    /\ UNCHANGED <<open, token, link, lock, proc>>

\* delete_staff, or update_staff with is_active = false, by another account.
DeactivateStaff(u) ==
    /\ user[u].active
    /\ \E admin \in Users \ {u} : Created(admin) /\ user[admin].role = "ADMIN"
    /\ RowsFree({u})
    /\ user' = [user EXCEPT ![u].active = FALSE]
    /\ UNCHANGED <<open, token, link, lock, proc>>

\* update_staff with is_active = true.
ReactivateStaff(u) ==
    /\ Created(u)
    /\ ~user[u].active
    /\ ActiveHolders(user[u].email) = {}
    /\ RowsFree({u})
    /\ user' = [user EXCEPT ![u].active = TRUE]
    /\ UNCHANGED <<open, token, link, lock, proc>>

\* update_staff with a role.
ChangeRole(u, role) ==
    /\ Created(u)
    /\ user[u].role # role
    /\ RowsFree({u})
    /\ user' = [user EXCEPT ![u].role = role]
    /\ UNCHANGED <<open, token, link, lock, proc>>

\* update_admin_email: no other row, active or not, may have the address.
ChangeEmail(u, e) ==
    /\ Created(u)
    /\ user[u].role = "ADMIN"
    /\ Holders(e) = {}
    /\ RowsFree({u})
    /\ user' = [user EXCEPT ![u].email = e]
    /\ UNCHANGED <<open, token, link, lock, proc>>

\* update_restaurant with is_active: logins and reset requests are refused,
\* the sessions there are go on.
SwitchRestaurant ==
    /\ \E u \in Users : Created(u)
    /\ open' = ~open
    /\ UNCHANGED <<user, token, link, lock, proc>>

-----------------------------------------------------------------------------
AccStep(p) ==
    \/ LockAccount(p) \/ IssueTokens(p)
    \/ Rotate(p) \/ Eject(p)
    \/ MailLink(p) \/ RevokeSessions(p) \/ SetPassword(p)
    \/ \E q \in Procs : AbortDeadlock(p, q)

AccNext ==
    \/ \E p \in Procs :
         \/ AccStep(p)
         \/ \E u \in Users : Authenticate(p, u) \/ Forget(p, u)
         \/ \E t \in Tokens : LockToken(p, t)
         \/ \E l \in Links : LockLink(p, l)
    \/ \E t \in Tokens : Logout(t)
    \/ \E l \in Links : LinkExpires(l)
    \/ \E u \in Users :
         \/ DeactivateStaff(u) \/ ReactivateStaff(u)
         \/ \E e \in Emails : CreateRestaurant(u, e) \/ ChangeEmail(u, e)
         \/ \E role \in {"ADMIN", "WAITER"} :
              \/ ChangeRole(u, role)
              \/ \E e \in Emails : CreateStaff(u, e, role)
    \/ SwitchRestaurant

AccSpec == AccInit /\ [][AccNext]_accVars

-----------------------------------------------------------------------------
(* Properties *)

(***************************************************************************)
(* issue_tokens: "one active session per account".  Logins, rotations and  *)
(* resets that overlap in any order leave at most one token alive, what    *)
(* excludes a rotation from a login under way being the foreign key's      *)
(* lock; and of two tabs that present one token only one gets a successor. *)
(***************************************************************************)
OneSession ==
    /\ \A u \in Users : Cardinality(LiveTokens(u)) <= 1
    /\ \A s, t \in Tokens : token[s].parent = token[t].parent /\ token[s].parent # Nobody => s = t

(***************************************************************************)
(* A reset link sets a password once, however often it is opened and       *)
(* whatever newer links retire it meanwhile.                               *)
(***************************************************************************)
LinkUsedOnce == \A l \in Links : link[l].used <= 1

=============================================================================
