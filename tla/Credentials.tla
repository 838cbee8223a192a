----------------------------- MODULE Credentials -----------------------------
(***************************************************************************)
(* service-b's passwords, refresh tokens and password reset tokens.        *)
(*                                                                         *)
(* As in Directory, a request is an element of Call that runs in its own   *)
(* goroutine and takes one step per statement; between two steps any other *)
(* request may run.  A token is named by the request that issues it: its   *)
(* 32 random bytes are never drawn twice and only its digest is stored.    *)
(* A password stands for its bcrypt hash.                                  *)
(*                                                                         *)
(* Who may call UpdateUser, DeleteUser and CreateUser is Directory's       *)
(* matter; here an administrator may at any time.                          *)
(***************************************************************************)
EXTENDS Integers

CONSTANTS
  User, Password, Call,
  Admin,         \* the user there is when the model begins
  NoUser, NoCall,
  NoPassword,    \* the empty password_hash of a user created without one
  ResetTTL,      \* life of a reset token, in ticks
  ResetDelay,    \* ticks a ResetPassword may take
  MaxTime        \* bound on the clock

ASSUME CredentialAssumption ==
  /\ Admin \in User /\ NoUser \notin User /\ NoCall \notin Call /\ NoPassword \notin Password
  /\ ResetTTL \in Nat \ {0} /\ ResetDelay \in Nat /\ MaxTime \in Nat

VARIABLES
  user,      \* users: is the row absent, live or soft-deleted
  hash,      \* users.password_hash
  refresh,   \* refresh_tokens: the logins whose token is stored
  reset,     \* password_reset_tokens
  handed,    \* the requests whose token a client has received
  now, call,
  (* history, read by the properties only *)
  issued,    \* the user each reset token was issued for
  spent,     \* reset tokens issued to a user before a reset of theirs cleaned up
  revoked    \* logins whose refresh token was presented to Logout

tables == <<user, hash, refresh, reset>>
history == <<issued, spent, revoked>>
vars == <<tables, handed, now, call, history>>

RowState == {"absent", "live", "deleted"}
Hash == Password \cup {NoPassword}
ResetRow == [id : Call, user : User, exp : Nat]
Request == [op : {"none", "Login", "ForgotPassword", "ResetPassword", "UpdateUser", "DeleteUser"},
            pc : {"new", "store", "reply", "write", "clean", "done"},
            user : User \cup {NoUser}, hash : Hash, want : Hash,
            token : Call \cup {NoCall}, at : Nat]

Blank == [op |-> "none", pc |-> "new", user |-> NoUser, hash |-> NoPassword,
          want |-> NoPassword, token |-> NoCall, at |-> 0]

-----------------------------------------------------------------------------
Running(c) == call[c].pc \notin {"new", "done"}

At(c, op, pc) == call[c].op = op /\ call[c].pc = pc

Start(c, rec) ==
  /\ call[c].pc = "new"
  /\ call' = [call EXCEPT ![c] = rec]
  /\ UNCHANGED <<tables, handed, now, history>>

Goto(c, pc) == call' = [call EXCEPT ![c].pc = pc]

Finish(c) == call' = [call EXCEPT ![c] = [Blank EXCEPT !.pc = "done"]]

\* mutant: the reads are Unscoped
FoundUnscoped(u) == user[u] # "absent"

\* WHERE ... AND deleted_at IS NULL
Found(u) == user[u] = "live"

\* A statement or the publishing that follows it fails, the client goes away or
\* the process dies; what was committed stays and no token is handed out.
Fail(c) ==
  /\ Running(c)
  /\ Finish(c)
  /\ UNCHANGED <<tables, handed, now, history>>

-----------------------------------------------------------------------------
(* Login, Logout *)

BeginLogin(c, u, p) ==
  /\ Found(u) /\ hash[u] = p
  /\ Start(c, [Blank EXCEPT !.op = "Login", !.pc = "store", !.user = u])

StoreRefreshToken(c) ==
  /\ At(c, "Login", "store")
  /\ refresh' = refresh \cup {c}
  /\ Goto(c, "reply")
  /\ UNCHANGED <<user, hash, reset, handed, now, history>>

\* the response carries the token; ForgotPassword's does when
\* PASSWORD_RESET_DEV_RETURN_TOKEN is 1
Reply(c) ==
  /\ call[c].pc = "reply"
  /\ handed' = handed \cup {c}
  /\ Finish(c)
  /\ UNCHANGED <<tables, now, history>>

\* mutant: logging out deletes every refresh token
LogoutEverywhere(c, d) ==
  /\ call[c].pc = "new"
  /\ d \in handed
  /\ refresh' = {}
  /\ revoked' = revoked \cup {d}
  /\ Finish(c)
  /\ UNCHANGED <<user, hash, reset, handed, now, issued, spent>>

\* DELETE ... WHERE token_hash; whoever has a valid JWT may present any token
Logout(c, d) ==
  /\ call[c].pc = "new"
  /\ d \in handed
  /\ refresh' = refresh \ {d}
  /\ revoked' = revoked \cup {d}
  /\ Finish(c)
  /\ UNCHANGED <<user, hash, reset, handed, now, issued, spent>>

-----------------------------------------------------------------------------
(* ForgotPassword, ResetPassword *)

BeginForgotPassword(c, u) ==
  /\ Found(u)
  /\ Start(c, [Blank EXCEPT !.op = "ForgotPassword", !.pc = "store", !.user = u])

\* mutant: the hour is subtracted
StoreExpiredResetToken(c) ==
  /\ At(c, "ForgotPassword", "store")
  /\ reset' = reset \cup {[id |-> c, user |-> call[c].user, exp |-> now - ResetTTL]}
  /\ issued' = [issued EXCEPT ![c] = call[c].user]
  /\ Goto(c, "reply")
  /\ UNCHANGED <<user, hash, refresh, handed, now, spent, revoked>>

StoreResetToken(c) ==
  /\ At(c, "ForgotPassword", "store")
  /\ reset' = reset \cup {[id |-> c, user |-> call[c].user, exp |-> now + ResetTTL]}
  /\ issued' = [issued EXCEPT ![c] = call[c].user]
  /\ Goto(c, "reply")
  /\ UNCHANGED <<user, hash, refresh, handed, now, spent, revoked>>

\* mutant: expires_at is not compared
UsableForever(r) == r.id \in handed

\* token_hash = ? AND expires_at > now, for a token the client has
Usable(r) == r.id \in handed /\ r.exp > now

BeginResetPassword(c, p) ==
  \E r \in reset :
    /\ Usable(r)
    /\ Start(c, [Blank EXCEPT !.op = "ResetPassword", !.pc = "write", !.user = r.user,
                              !.hash = p, !.want = p, !.token = r.id, !.at = now])

\* mutant: the UPDATE has lost its WHERE id
SetEveryPassword(c) ==
  /\ At(c, "ResetPassword", "write")
  /\ hash' = [u \in User |-> IF Found(u) THEN call[c].hash ELSE hash[u]]
  /\ Goto(c, "clean")
  /\ UNCHANGED <<user, refresh, reset, handed, now, history>>

\* UPDATE users SET password_hash WHERE id AND deleted_at IS NULL; that it may
\* have changed no row goes unnoticed
SetPassword(c) ==
  LET u == call[c].user IN
  /\ At(c, "ResetPassword", "write")
  /\ hash' = [hash EXCEPT ![u] = IF Found(u) THEN call[c].hash ELSE @]
  /\ Goto(c, "clean")
  /\ UNCHANGED <<user, refresh, reset, handed, now, history>>

\* mutant: only the token presented is deleted
DeleteOneResetToken(c) ==
  /\ At(c, "ResetPassword", "clean")
  /\ reset' = {r \in reset : r.id # call[c].token}
  /\ spent' = spent \cup {d \in Call : issued[d] = call[c].user}
  /\ Finish(c)
  /\ UNCHANGED <<user, hash, refresh, handed, now, issued, revoked>>

\* DELETE ... WHERE user_id; its error is ignored, which has the effect of Fail
DeleteResetTokens(c) ==
  /\ At(c, "ResetPassword", "clean")
  /\ reset' = {r \in reset : r.user # call[c].user}
  /\ spent' = spent \cup {d \in Call : issued[d] = call[c].user}
  /\ Finish(c)
  /\ UNCHANGED <<user, hash, refresh, handed, now, issued, revoked>>

-----------------------------------------------------------------------------
(* What UserService, and Register, do to passwords. *)

\* Create writes the row in one transaction
CreateUser(c, u, p) ==
  /\ call[c].pc = "new"
  /\ user[u] = "absent"
  /\ user' = [user EXCEPT ![u] = "live"]
  /\ hash' = [hash EXCEPT ![u] = p]
  /\ Finish(c)
  /\ UNCHANGED <<refresh, reset, handed, now, history>>

\* the row is read with its hash, which gives way to a wanted password only
BeginUpdateUser(c, u, w) ==
  /\ Found(u)
  /\ Start(c, [Blank EXCEPT !.op = "UpdateUser", !.pc = "write", !.user = u, !.want = w,
                            !.hash = IF w = NoPassword THEN hash[u] ELSE w])

\* Save writes every column as read, deleted_at and password_hash among them
UpdateUser(c) ==
  LET u == call[c].user IN
  /\ At(c, "UpdateUser", "write")
  /\ user' = [user EXCEPT ![u] = "live"]
  /\ hash' = [hash EXCEPT ![u] = call[c].hash]
  /\ Finish(c)
  /\ UNCHANGED <<refresh, reset, handed, now, history>>

BeginDeleteUser(c, u) ==
  /\ Found(u)
  /\ Start(c, [Blank EXCEPT !.op = "DeleteUser", !.pc = "write", !.user = u])

DeleteUser(c) ==
  /\ At(c, "DeleteUser", "write")
  /\ user' = [user EXCEPT ![call[c].user] = "deleted"]
  /\ Finish(c)
  /\ UNCHANGED <<hash, refresh, reset, handed, now, history>>

-----------------------------------------------------------------------------
(* The clock, kept from outrunning a reset by more than ResetDelay. *)
Tick ==
  /\ now < MaxTime
  /\ \A c \in Call : At(c, "ResetPassword", "write") => now - call[c].at < ResetDelay
  /\ now' = now + 1
  /\ UNCHANGED <<tables, handed, call, history>>

Init ==
  /\ user = [u \in User |-> IF u = Admin THEN "live" ELSE "absent"]
  /\ hash \in {h \in [User -> Hash] : \A u \in User : (u = Admin) <=> (h[u] \in Password)}
  /\ refresh = {} /\ reset = {} /\ handed = {}
  /\ now = 0
  /\ call = [c \in Call |-> Blank]
  /\ issued = [c \in Call |-> NoUser]
  /\ spent = {} /\ revoked = {}

SessionStep(c) ==
  \/ \E u \in User, p \in Password : BeginLogin(c, u, p)
  \/ StoreRefreshToken(c)
  \/ Reply(c)
  \/ \E d \in Call : Logout(c, d)

ResetStep(c) ==
  \/ \E u \in User : BeginForgotPassword(c, u)
  \/ StoreResetToken(c)
  \/ \E p \in Password : BeginResetPassword(c, p)
  \/ SetPassword(c)
  \/ DeleteResetTokens(c)

UserStep(c) ==
  \/ \E u \in User, p \in Hash : CreateUser(c, u, p)
  \/ \E u \in User, w \in Hash : BeginUpdateUser(c, u, w)
  \/ UpdateUser(c)
  \/ \E u \in User : BeginDeleteUser(c, u)
  \/ DeleteUser(c)

Step(c) == SessionStep(c) \/ ResetStep(c) \/ UserStep(c) \/ Fail(c)

\* the bounded run is over
Over ==
  /\ now = MaxTime /\ \A c \in Call : ~ Running(c)
  /\ UNCHANGED vars

Next == (\E c \in Call : Step(c)) \/ Tick \/ Over

Spec == Init /\ [][Next]_vars
-----------------------------------------------------------------------------
(* Properties. *)

TypeOK ==
  /\ user \in [User -> RowState]
  /\ hash \in [User -> Hash]
  /\ refresh \subseteq Call /\ handed \subseteq Call
  /\ reset \subseteq ResetRow
  /\ now \in Nat
  /\ call \in [Call -> Request]
  /\ issued \in [Call -> User \cup {NoUser}]
  /\ spent \subseteq Call /\ revoked \subseteq Call

(* A password a user no longer has, and that no request in flight is about to *)
(* write, does not come back until a request that asks for it begins: a stale *)
(* Save can restore an old password, but only while it is in flight.          *)
Writes(c, u, p) ==
  call[c].op \in {"UpdateUser", "ResetPassword"} /\ call[c].pc = "write"
  /\ call[c].user = u /\ call[c].hash = p

Gone(u, p) == user[u] # "absent" /\ hash[u] # p /\ \A c \in Call : ~ Writes(c, u, p)

OldPasswordSettles ==
  [][\A u \in User, p \in Password : Gone(u, p) /\ ~ Gone(u, p)' =>
       \E c \in Call : call[c].pc = "new" /\ call'[c].want = p /\ Writes(c, u, p)']_vars

(* Once a reset has cleaned up, none of the reset tokens that were issued to  *)
(* that user before begins another reset: the one presented and the others.   *)
SpentTokensStayDead ==
  [][\A c \in Call : call[c].pc = "new" /\ call'[c].op = "ResetPassword"
       => call'[c].token \notin spent]_vars

(* A reset writes a password only for the user its token was issued to, and   *)
(* no later than the token's life and the time a reset takes allow: a row     *)
(* that outlives its expiry is never used.                                    *)
ResetInTime ==
  \A c \in Call : At(c, "ResetPassword", "write") =>
    /\ issued[call[c].token] = call[c].user
    /\ \A r \in reset : r.id = call[c].token => now < r.exp + ResetDelay

(* A deleted account is inert once no update that read it before is in        *)
(* flight: no reset token works on its password, no login or request for a    *)
(* new reset token begins.                                                    *)
Inert(u) ==
  user[u] = "deleted" /\ \A c \in Call : ~ (At(c, "UpdateUser", "write") /\ call[c].user = u)

DeletedAccountInert ==
  [][\A u \in User : Inert(u) =>
       /\ hash'[u] = hash[u]
       /\ \A c \in Call : call[c].pc = "new" /\ call'[c].user = u
            => call'[c].op = "ResetPassword"]_vars

(* A refresh token a client was given is stored until that very token is      *)
(* presented to Logout, and not afterwards.                                   *)
SessionsKept ==
  \A d \in handed : issued[d] = NoUser => (d \in refresh <=> d \notin revoked)

(* user_service.go: "UpdateUser updates fields", and password is an optional  *)
(* one (docs/API.md): an update that is not asked for a password leaves every *)
(* password as it is.                                                         *)
UpdateLeavesPassword ==
  [][\A c \in Call : At(c, "UpdateUser", "write") /\ call[c].want = NoPassword
                     /\ call'[c].pc = "done"
       => hash' = hash]_vars
=============================================================================
