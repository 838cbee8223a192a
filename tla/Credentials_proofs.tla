-------------------------- MODULE Credentials_proofs --------------------------
(***************************************************************************)
(* Proofs about Credentials, for any users, passwords, requests, lives of  *)
(* tokens and delays: tokens once spent stay dead, a reset comes in time   *)
(* and for its own user, sessions are kept until Logout, and neither an    *)
(* old password nor a deleted account comes back by itself.                *)
(***************************************************************************)
EXTENDS Credentials, TLAPS

(* What a request carries at each of its statements.                          *)
Carries(c) ==
  /\ call[c].pc \in {"new", "done"} => call[c].user = NoUser /\ call[c].op = "none"
  /\ Running(c) => call[c].user \in User
  /\ call[c].pc \in {"store", "reply"} => call[c].op \in {"Login", "ForgotPassword"}
  /\ call[c].op = "ResetPassword" => call[c].token \in Call

(* A token was issued by a request for a new one that has stored it, and      *)
(* handed out by one that is over; a login about to hand its token out has    *)
(* stored it and nobody can have presented it.                                *)
Issues(c) ==
  /\ call[c].pc = "new" \/ call[c].op = "Login" \/ At(c, "ForgotPassword", "store")
       => issued[c] = NoUser
  /\ At(c, "ForgotPassword", "reply") => issued[c] # NoUser
  /\ At(c, "Login", "reply") => c \in refresh
  /\ c \in handed => call[c].pc = "done"
  /\ c \in revoked => c \in handed
  /\ c \in handed /\ issued[c] = NoUser => (c \in refresh <=> c \notin revoked)

(* A stored reset token is its issuer's only one, belongs to the user it was  *)
(* issued for and is not spent.                                               *)
Tokens ==
  /\ \A r \in reset : issued[r.id] = r.user /\ r.id \notin spent
  /\ \A d \in spent : issued[d] # NoUser
  /\ \A r, s \in reset : r.id = s.id => r = s

(* A reset about to write found its token alive no longer ago than a reset    *)
(* may take.                                                                  *)
Timely(c) ==
  At(c, "ResetPassword", "write") =>
    /\ issued[call[c].token] = call[c].user
    /\ call[c].at <= now /\ now <= call[c].at + ResetDelay
    /\ \A r \in reset : r.id = call[c].token => r.exp > call[c].at

IInv ==
  /\ TypeOK
  /\ \A c \in Call : Carries(c) /\ Issues(c) /\ Timely(c)
  /\ Tokens

-----------------------------------------------------------------------------
LEMMA BlankRequest ==
  Blank \in Request /\ [Blank EXCEPT !.pc = "done"] \in Request
  BY CredentialAssumption DEF Blank, Request, Hash

LEMMA InitInv == Init => IInv
<1> SUFFICES ASSUME Init PROVE IInv
  OBVIOUS
<1>1. hash \in [User -> Hash]
  BY DEF Init, Hash
<1>2. TypeOK
  BY <1>1, BlankRequest, CredentialAssumption DEF Init, TypeOK, RowState
<1>3. Tokens
  BY DEF Init, Tokens
<1>4. ASSUME NEW c \in Call PROVE Carries(c) /\ Issues(c) /\ Timely(c)
  BY DEF Init, Carries, Issues, Timely, At, Running, Blank
<1> QED BY <1>2, <1>3, <1>4 DEF IInv

-----------------------------------------------------------------------------
(* What a step does to the requests. *)

\* a request that begins carries what it read
LEMMA Begins ==
  ASSUME TypeOK, NEW c \in Call, NEW rec \in Request, Start(c, rec)
  PROVE  /\ call[c].pc = "new" /\ call' \in [Call -> Request] /\ call'[c] = rec
         /\ \A d \in Call \ {c} : call'[d] = call[d]
         /\ UNCHANGED <<user, hash, refresh, reset, handed, now, issued, spent, revoked>>
  BY DEF Start, TypeOK, tables, history

\* one that ends carries nothing
LEMMA Ends ==
  ASSUME TypeOK, NEW c \in Call, Finish(c)
  PROVE  /\ call' \in [Call -> Request]
         /\ call'[c].pc = "done" /\ call'[c].op = "none" /\ call'[c].user = NoUser
         /\ \A d \in Call \ {c} : call'[d] = call[d]
  BY BlankRequest DEF Finish, TypeOK, Blank

\* one that goes on keeps what it carries
LEMMA GoesOn ==
  ASSUME TypeOK, NEW c \in Call, NEW pc \in {"reply", "clean"}, Goto(c, pc)
  PROVE  /\ call' \in [Call -> Request]
         /\ call'[c] = [call[c] EXCEPT !.pc = pc]
         /\ call'[c].pc = pc /\ call'[c].op = call[c].op /\ call'[c].user = call[c].user
         /\ call'[c].token = call[c].token
         /\ \A d \in Call \ {c} : call'[d] = call[d]
  BY DEF Goto, TypeOK, Request

-----------------------------------------------------------------------------
(* The requests as they begin. *)

\* every way to begin a request
Beginning(c) ==
  \/ \E u \in User, p \in Password : BeginLogin(c, u, p)
  \/ \E u \in User : BeginForgotPassword(c, u)
  \/ \E p \in Password : BeginResetPassword(c, p)
  \/ \E u \in User, w \in Hash : BeginUpdateUser(c, u, w)
  \/ \E u \in User : BeginDeleteUser(c, u)

\* what such a request has read
Read(c) ==
  LET r == call'[c] IN
  /\ r.user \in User
  /\ \/ r.op \in {"Login", "ForgotPassword"} /\ r.pc = "store" /\ Found(r.user)
     \/ /\ r.op = "ResetPassword" /\ r.pc = "write" /\ r.at = now /\ r.want = r.hash
        /\ \E t \in reset : Usable(t) /\ r.token = t.id /\ r.user = t.user
     \/ r.op = "UpdateUser" /\ r.pc = "write" /\ Found(r.user)
        /\ r.hash = (IF r.want = NoPassword THEN hash[r.user] ELSE r.want)
     \/ r.op = "DeleteUser" /\ r.pc = "write" /\ Found(r.user)

LEMMA BeginningStep ==
  ASSUME TypeOK, NEW c \in Call, Beginning(c)
  PROVE  /\ call[c].pc = "new" /\ call' \in [Call -> Request] /\ Read(c)
         /\ \A d \in Call \ {c} : call'[d] = call[d]
         /\ UNCHANGED <<user, hash, refresh, reset, handed, now, issued, spent, revoked>>
<1>1. ASSUME NEW rec \in Request, Start(c, rec), rec = call'[c] => Read(c)
      PROVE  /\ call[c].pc = "new" /\ call' \in [Call -> Request] /\ Read(c)
             /\ \A d \in Call \ {c} : call'[d] = call[d]
             /\ UNCHANGED <<user, hash, refresh, reset, handed, now, issued, spent, revoked>>
  BY <1>1, Begins
<1>2. ASSUME NEW u \in User, NEW p \in Password, BeginLogin(c, u, p)
      PROVE  \E rec \in Request : Start(c, rec) /\ (rec = call'[c] => Read(c))
  <2> DEFINE rec == [Blank EXCEPT !.op = "Login", !.pc = "store", !.user = u]
  <2>1. rec \in Request /\ rec.op = "Login" /\ rec.pc = "store" /\ rec.user = u
    BY BlankRequest DEF Blank, Request
  <2>2. Start(c, rec) /\ Found(u)
    BY <1>2 DEF BeginLogin
  <2> HIDE DEF rec
  <2> QED BY <2>1, <2>2 DEF Read
<1>3. ASSUME NEW u \in User, BeginForgotPassword(c, u)
      PROVE  \E rec \in Request : Start(c, rec) /\ (rec = call'[c] => Read(c))
  <2> DEFINE rec == [Blank EXCEPT !.op = "ForgotPassword", !.pc = "store", !.user = u]
  <2>1. rec \in Request /\ rec.op = "ForgotPassword" /\ rec.pc = "store" /\ rec.user = u
    BY BlankRequest DEF Blank, Request
  <2>2. Start(c, rec) /\ Found(u)
    BY <1>3 DEF BeginForgotPassword
  <2> HIDE DEF rec
  <2> QED BY <2>1, <2>2 DEF Read
<1>4. ASSUME NEW p \in Password, BeginResetPassword(c, p)
      PROVE  \E rec \in Request : Start(c, rec) /\ (rec = call'[c] => Read(c))
  <2>1. PICK t \in reset : Usable(t) /\
          Start(c, [Blank EXCEPT !.op = "ResetPassword", !.pc = "write", !.user = t.user,
                                 !.hash = p, !.want = p, !.token = t.id, !.at = now])
    BY <1>4 DEF BeginResetPassword
  <2> DEFINE rec == [Blank EXCEPT !.op = "ResetPassword", !.pc = "write", !.user = t.user,
                                  !.hash = p, !.want = p, !.token = t.id, !.at = now]
  <2>2. t.id \in Call /\ t.user \in User /\ now \in Nat /\ p \in Hash
    BY DEF TypeOK, ResetRow, Hash
  <2>3. /\ rec \in Request /\ rec.op = "ResetPassword" /\ rec.pc = "write" /\ rec.user = t.user
        /\ rec.hash = p /\ rec.want = p /\ rec.token = t.id /\ rec.at = now
    BY <2>2, BlankRequest DEF Blank, Request
  <2>4. Start(c, rec)
    BY <2>1
  <2> HIDE DEF rec
  <2> QED BY <2>1, <2>2, <2>3, <2>4 DEF Read
<1>5. ASSUME NEW u \in User, NEW w \in Hash, BeginUpdateUser(c, u, w)
      PROVE  \E rec \in Request : Start(c, rec) /\ (rec = call'[c] => Read(c))
  <2> DEFINE h == IF w = NoPassword THEN hash[u] ELSE w
  <2> DEFINE rec == [Blank EXCEPT !.op = "UpdateUser", !.pc = "write", !.user = u, !.want = w,
                                  !.hash = h]
  <2>1. h \in Hash
    BY DEF TypeOK
  <2>2. Start(c, rec) /\ Found(u)
    BY <1>5 DEF BeginUpdateUser
  <2>3. h = IF w = NoPassword THEN hash[u] ELSE w
    OBVIOUS
  <2> HIDE DEF h
  <2>4. /\ rec \in Request /\ rec.op = "UpdateUser" /\ rec.pc = "write" /\ rec.user = u
        /\ rec.want = w /\ rec.hash = h
    BY <2>1, BlankRequest DEF Blank, Request
  <2> HIDE DEF rec
  <2> QED BY <2>2, <2>3, <2>4 DEF Read
<1>6. ASSUME NEW u \in User, BeginDeleteUser(c, u)
      PROVE  \E rec \in Request : Start(c, rec) /\ (rec = call'[c] => Read(c))
  <2> DEFINE rec == [Blank EXCEPT !.op = "DeleteUser", !.pc = "write", !.user = u]
  <2>1. rec \in Request /\ rec.op = "DeleteUser" /\ rec.pc = "write" /\ rec.user = u
    BY BlankRequest DEF Blank, Request
  <2>2. Start(c, rec) /\ Found(u)
    BY <1>6 DEF BeginDeleteUser
  <2> HIDE DEF rec
  <2> QED BY <2>1, <2>2 DEF Read
<1>7. \E rec \in Request : Start(c, rec) /\ (rec = call'[c] => Read(c))
  BY <1>2, <1>3, <1>4, <1>5, <1>6 DEF Beginning
<1> QED BY <1>1, <1>7

\* the requests that end without a word about their own tokens
Ending(c) ==
  \/ \E d \in Call : Logout(c, d)
  \/ \E u \in User, p \in Hash : CreateUser(c, u, p)
  \/ UpdateUser(c) \/ DeleteUser(c) \/ Fail(c)

LEMMA StepCases ==
  ASSUME NEW c \in Call, Step(c)
  PROVE  \/ Beginning(c) \/ Ending(c) \/ StoreRefreshToken(c) \/ Reply(c)
         \/ StoreResetToken(c) \/ SetPassword(c) \/ DeleteResetTokens(c)
  BY DEF Step, SessionStep, ResetStep, UserStep, Beginning, Ending

LEMMA EndingStep ==
  ASSUME IInv, NEW c \in Call, Ending(c)
  PROVE  /\ TypeOK' /\ Finish(c)
         /\ UNCHANGED <<reset, handed, now, issued, spent>>
         /\ \/ UNCHANGED <<refresh, revoked>>
            \/ \E d \in handed : refresh' = refresh \ {d} /\ revoked' = revoked \cup {d}
<1> USE DEF tables, history
<1>0. TypeOK /\ Carries(c)
  BY DEF IInv
<1>1. ASSUME NEW d \in Call, Logout(c, d) PROVE
        /\ TypeOK' /\ Finish(c)
        /\ UNCHANGED <<reset, handed, now, issued, spent>>
        /\ d \in handed /\ refresh' = refresh \ {d} /\ revoked' = revoked \cup {d}
  <2>1. Finish(c) /\ UNCHANGED <<user, hash, reset, handed, now, issued, spent>>
    BY <1>1 DEF Logout
  <2>2. call' \in [Call -> Request]
    BY <1>0, <2>1, Ends
  <2>3. d \in handed /\ refresh' = refresh \ {d} /\ revoked' = revoked \cup {d}
    BY <1>1 DEF Logout
  <2> QED BY <1>0, <2>1, <2>2, <2>3 DEF TypeOK
<1>2. ASSUME NEW u \in User, NEW p \in Hash, CreateUser(c, u, p) PROVE
        /\ TypeOK' /\ Finish(c)
        /\ UNCHANGED <<reset, handed, now, issued, spent, refresh, revoked>>
  <2>1. Finish(c) /\ UNCHANGED <<refresh, reset, handed, now, issued, spent, revoked>>
    BY <1>2 DEF CreateUser
  <2>2. call' \in [Call -> Request]
    BY <1>0, <2>1, Ends
  <2>3. user' \in [User -> RowState] /\ hash' \in [User -> Hash]
    BY <1>0, <1>2 DEF CreateUser, TypeOK, RowState
  <2> QED BY <1>0, <2>1, <2>2, <2>3 DEF TypeOK
<1>3. ASSUME UpdateUser(c) PROVE
        /\ TypeOK' /\ Finish(c)
        /\ UNCHANGED <<reset, handed, now, issued, spent, refresh, revoked>>
  <2>1. Finish(c) /\ UNCHANGED <<refresh, reset, handed, now, issued, spent, revoked>>
    BY <1>3 DEF UpdateUser
  <2>2. call' \in [Call -> Request]
    BY <1>0, <2>1, Ends
  <2>3. call[c].user \in User /\ call[c].hash \in Hash
    BY <1>0, <1>3 DEF UpdateUser, At, Running, Carries, TypeOK, Request
  <2>4. user' \in [User -> RowState] /\ hash' \in [User -> Hash]
    BY <1>0, <1>3, <2>3 DEF UpdateUser, TypeOK, RowState
  <2> QED BY <1>0, <2>1, <2>2, <2>4 DEF TypeOK
<1>4. ASSUME DeleteUser(c) \/ Fail(c) PROVE
        /\ TypeOK' /\ Finish(c)
        /\ UNCHANGED <<reset, handed, now, issued, spent, refresh, revoked>>
  <2>1. Finish(c) /\ UNCHANGED <<hash, refresh, reset, handed, now, issued, spent, revoked>>
    BY <1>4 DEF DeleteUser, Fail
  <2>2. call' \in [Call -> Request]
    BY <1>0, <2>1, Ends
  <2>3. user' \in [User -> RowState]
    BY <1>0, <1>4 DEF DeleteUser, Fail, TypeOK, RowState
  <2> QED BY <1>0, <2>1, <2>2, <2>3 DEF TypeOK
<1> QED BY <1>1, <1>2, <1>3, <1>4 DEF Ending

LEMMA TypesStep ==
  ASSUME IInv, NEW c \in Call, Step(c)
  PROVE  TypeOK'
<1> USE DEF tables, history
<1>0. TypeOK /\ Carries(c)
  BY DEF IInv
<1>1. CASE Beginning(c)
  <2>1. call' \in [Call -> Request]
        /\ UNCHANGED <<user, hash, refresh, reset, handed, now, issued, spent, revoked>>
    BY <1>0, <1>1, BeginningStep
  <2> QED BY <1>0, <2>1 DEF TypeOK
<1>2. CASE Ending(c)
  BY <1>2, EndingStep
<1>3. CASE StoreRefreshToken(c)
  <2>1. call' \in [Call -> Request]
    BY <1>0, <1>3, GoesOn DEF StoreRefreshToken
  <2> QED BY <1>0, <1>3, <2>1 DEF StoreRefreshToken, TypeOK
<1>4. CASE Reply(c)
  <2>1. call' \in [Call -> Request]
    BY <1>0, <1>4, Ends DEF Reply
  <2> QED BY <1>0, <1>4, <2>1 DEF Reply, TypeOK
<1>5. CASE StoreResetToken(c)
  <2>1. call' \in [Call -> Request]
    BY <1>0, <1>5, GoesOn DEF StoreResetToken
  <2>2. call[c].user \in User
    BY <1>0, <1>5 DEF StoreResetToken, At, Carries, Running
  <2>3. [id |-> c, user |-> call[c].user, exp |-> now + ResetTTL] \in ResetRow
    BY <1>0, <2>2, CredentialAssumption DEF TypeOK, ResetRow
  <2>4. reset' \subseteq ResetRow
    <3> HIDE DEF ResetRow
    <3> QED BY <1>0, <1>5, <2>3 DEF StoreResetToken, TypeOK
  <2>5. issued' \in [Call -> User \cup {NoUser}]
    BY <1>0, <1>5, <2>2 DEF StoreResetToken, TypeOK
  <2> QED BY <1>0, <1>5, <2>1, <2>4, <2>5 DEF StoreResetToken, TypeOK
<1>6. CASE SetPassword(c)
  <2>1. call' \in [Call -> Request]
    BY <1>0, <1>6, GoesOn DEF SetPassword
  <2>2. call[c].user \in User /\ call[c].hash \in Hash
    BY <1>0, <1>6 DEF SetPassword, At, Carries, Running, TypeOK, Request
  <2>3. hash' \in [User -> Hash]
    BY <1>0, <1>6, <2>2 DEF SetPassword, TypeOK
  <2> QED BY <1>0, <1>6, <2>1, <2>3 DEF SetPassword, TypeOK
<1>7. CASE DeleteResetTokens(c)
  <2>1. call' \in [Call -> Request]
    BY <1>0, <1>7, Ends DEF DeleteResetTokens
  <2>2. spent' \subseteq Call /\ reset' \subseteq reset
    BY <1>0, <1>7 DEF DeleteResetTokens, TypeOK
  <2> QED BY <1>0, <1>7, <2>1, <2>2 DEF DeleteResetTokens, TypeOK
<1> QED BY <1>1, <1>2, <1>3, <1>4, <1>5, <1>6, <1>7, StepCases

-----------------------------------------------------------------------------
(* A step of one request leaves what the others carry.                        *)

LEMMA CarriesStep ==
  ASSUME IInv, NEW c \in Call, Step(c)
  PROVE  \A d \in Call : Carries(d)' /\ (d # c => call'[d] = call[d])
<1> USE DEF tables, history
<1>0. TypeOK /\ \A d \in Call : Carries(d)
  BY DEF IInv
<1>1. Carries(c)' /\ \A d \in Call \ {c} : call'[d] = call[d]
  <2>1. CASE Beginning(c)
    <3>1. Read(c) /\ \A d \in Call \ {c} : call'[d] = call[d]
      BY <1>0, <2>1, BeginningStep
    <3>2. \A t \in reset : t.id \in Call
      BY <1>0 DEF TypeOK, ResetRow
    <3> QED BY <3>1, <3>2 DEF Read, Carries, Running
  <2>2. CASE Finish(c)
    BY <1>0, <2>2, Ends DEF Carries, Running
  <2>3. CASE StoreRefreshToken(c)
    BY <1>0, <2>3, GoesOn DEF StoreRefreshToken, Carries, Running, At
  <2>4. CASE StoreResetToken(c)
    BY <1>0, <2>4, GoesOn DEF StoreResetToken, Carries, Running, At
  <2>5. CASE SetPassword(c)
    BY <1>0, <2>5, GoesOn DEF SetPassword, Carries, Running, At
  <2> QED BY <2>1, <2>2, <2>3, <2>4, <2>5, StepCases, EndingStep DEF Reply, DeleteResetTokens
<1>2. ASSUME NEW d \in Call, call'[d] = call[d] PROVE Carries(d)'
  BY <1>0, <1>2 DEF Carries, Running
<1> QED BY <1>1, <1>2

\* sessions and the requests that issue tokens
LEMMA IssuesStep ==
  ASSUME IInv, NEW c \in Call, Step(c)
  PROVE  \A d \in Call : Issues(d)'
<1> USE DEF tables, history
<1>0. TypeOK /\ \A d \in Call : Carries(d) /\ Issues(d)
  BY DEF IInv
<1>1. \A d \in Call \ {c} : call'[d] = call[d]
  BY CarriesStep
<1>2. CASE Beginning(c)
  <2>1. call[c].pc = "new" /\ Read(c)
        /\ UNCHANGED <<refresh, handed, issued, revoked>>
    BY <1>0, <1>2, BeginningStep
  <2>2. Issues(c)'
    BY <1>0, <2>1 DEF Read, Issues, At
  <2> QED BY <1>0, <1>1, <2>1, <2>2 DEF Issues, At
<1>3. CASE Ending(c)
  <2>1. call'[c].pc = "done" /\ call'[c].op = "none" /\ UNCHANGED <<handed, issued>>
    BY <1>0, <1>3, EndingStep, Ends
  <2>2. CASE UNCHANGED <<refresh, revoked>>
    BY <1>0, <1>1, <2>1, <2>2 DEF Issues, At
  <2>3. ASSUME NEW e \in handed, refresh' = refresh \ {e}, revoked' = revoked \cup {e}
        PROVE  \A d \in Call : Issues(d)'
    BY <1>0, <1>1, <2>1, <2>3 DEF Issues, At
  <2> QED BY <1>3, <2>2, <2>3, EndingStep
<1>4. CASE StoreRefreshToken(c)
  <2>1. call'[c].pc = "reply" /\ call'[c].op = "Login"
    BY <1>0, <1>4, GoesOn DEF StoreRefreshToken, At
  <2> QED BY <1>0, <1>1, <1>4, <2>1 DEF StoreRefreshToken, Issues, At
<1>5. CASE Reply(c)
  <2>1. call'[c].pc = "done" /\ call'[c].op = "none"
    BY <1>0, <1>5, Ends DEF Reply
  <2> QED BY <1>0, <1>1, <1>5, <2>1 DEF Reply, Issues, Carries, At
<1>6. CASE StoreResetToken(c)
  <2>1. call'[c].pc = "reply" /\ call'[c].op = "ForgotPassword" /\ call[c].user \in User
    BY <1>0, <1>6, GoesOn DEF StoreResetToken, At, Carries, Running
  <2>2. issued' = [issued EXCEPT ![c] = call[c].user] /\ UNCHANGED <<refresh, handed, revoked>>
    BY <1>6 DEF StoreResetToken
  <2>3. issued'[c] # NoUser /\ \A d \in Call \ {c} : issued'[d] = issued[d]
    BY <1>0, <2>1, <2>2, CredentialAssumption DEF TypeOK
  <2> QED BY <1>0, <1>1, <1>6, <2>1, <2>2, <2>3 DEF StoreResetToken, Issues, At
<1>7. CASE SetPassword(c)
  <2>1. call'[c].pc = "clean" /\ call'[c].op = "ResetPassword"
    BY <1>0, <1>7, GoesOn DEF SetPassword, At
  <2> QED BY <1>0, <1>1, <1>7, <2>1 DEF SetPassword, Issues, At
<1>8. CASE DeleteResetTokens(c)
  <2>1. call'[c].pc = "done" /\ call'[c].op = "none"
    BY <1>0, <1>8, Ends DEF DeleteResetTokens
  <2> QED BY <1>0, <1>1, <1>8, <2>1 DEF DeleteResetTokens, Issues, At
<1> QED BY <1>2, <1>3, <1>4, <1>5, <1>6, <1>7, <1>8, StepCases

\* the reset tokens, as they are stored and cleaned up
LEMMA TokensStep ==
  ASSUME IInv, NEW c \in Call, Step(c)
  PROVE  Tokens'
<1> USE DEF tables, history
<1>0. TypeOK /\ Carries(c) /\ Issues(c) /\ Tokens
  BY DEF IInv
<1>1. \A r \in reset : r.id \in Call /\ r.user \in User
  BY <1>0 DEF TypeOK, ResetRow
<1>2. CASE UNCHANGED <<reset, issued, spent>>
  BY <1>0, <1>2 DEF Tokens
<1>3. CASE StoreResetToken(c)
  <2>1. issued[c] = NoUser /\ call[c].user \in User
    BY <1>0, <1>3 DEF StoreResetToken, At, Carries, Issues, Running
  <2>2. \A r \in reset : r.id # c
    BY <1>0, <1>1, <2>1, CredentialAssumption DEF Tokens
  <2>3. issued'[c] = call[c].user /\ \A d \in Call \ {c} : issued'[d] = issued[d]
    BY <1>0, <1>3 DEF StoreResetToken, TypeOK
  <2>4. c \notin spent /\ spent \subseteq Call /\ spent' = spent
    BY <1>0, <1>3, <2>1 DEF StoreResetToken, Tokens, TypeOK
  <2>5. PICK row : row.id = c /\ row.user = call[c].user /\ reset' = reset \cup {row}
    BY <1>3 DEF StoreResetToken
  <2> QED BY <1>0, <1>1, <2>1, <2>2, <2>3, <2>4, <2>5, CredentialAssumption DEF Tokens
<1>4. CASE DeleteResetTokens(c)
  <2>1. call[c].user \in User
    BY <1>0, <1>4 DEF DeleteResetTokens, At, Carries, Running
  <2>2. /\ reset' = {r \in reset : r.user # call[c].user} /\ issued' = issued
        /\ spent' = spent \cup {d \in Call : issued[d] = call[c].user}
    BY <1>4 DEF DeleteResetTokens
  <2> QED BY <1>0, <2>1, <2>2, CredentialAssumption DEF Tokens
<1>5. Beginning(c) => UNCHANGED <<reset, issued, spent>>
  BY <1>0, BeginningStep
<1>6. StoreRefreshToken(c) \/ Reply(c) \/ SetPassword(c) => UNCHANGED <<reset, issued, spent>>
  BY DEF StoreRefreshToken, Reply, SetPassword
<1> QED BY <1>2, <1>3, <1>4, <1>5, <1>6, StepCases, EndingStep

\* resets in flight, which no token stored meanwhile can be mistaken for
LEMMA TimelyStep ==
  ASSUME IInv, NEW c \in Call, Step(c)
  PROVE  \A d \in Call : Timely(d)'
<1> USE DEF tables, history
<1>0. TypeOK /\ Tokens /\ \A d \in Call : Carries(d) /\ Issues(d) /\ Timely(d)
  BY DEF IInv
<1>1. \A d \in Call \ {c} : call'[d] = call[d]
  BY CarriesStep
<1>2. now' = now /\ now \in Nat /\ TypeOK'
  BY <1>0, TypesStep, BeginningStep, EndingStep, StepCases
     DEF StoreRefreshToken, Reply, StoreResetToken, SetPassword, DeleteResetTokens, TypeOK
<1>3. ASSUME NEW d \in Call, call'[d] = call[d], reset' \subseteq reset, issued' = issued
      PROVE  Timely(d)'
  BY <1>0, <1>2, <1>3 DEF Timely, At
<1>4. CASE Beginning(c)
  <2>1. Read(c) /\ UNCHANGED <<reset, issued>>
    BY <1>0, <1>4, BeginningStep
  <2>2. ASSUME At(c, "ResetPassword", "write")' PROVE Timely(c)'
    <3>1. PICK t \in reset : Usable(t) /\ call'[c].token = t.id /\ call'[c].user = t.user
      BY <2>1, <2>2 DEF Read, At
    <3>2. call'[c].at = now
      BY <2>1, <2>2 DEF Read, At
    <3>3. t.exp > now /\ issued[t.id] = t.user /\ \A r \in reset : r.id = t.id => r = t
      BY <1>0, <3>1 DEF Usable, Tokens
    <3>4. now <= now + ResetDelay
      BY <1>2, CredentialAssumption
    <3> QED BY <1>2, <2>1, <3>1, <3>2, <3>3, <3>4 DEF Timely
  <2>3. Timely(c)'
    BY <2>2 DEF Timely
  <2> QED BY <1>1, <1>3, <2>1, <2>3
<1>5. CASE Finish(c) /\ reset' \subseteq reset /\ issued' = issued
  <2>1. Timely(c)'
    BY <1>0, <1>5, Ends DEF Timely, At
  <2> QED BY <1>1, <1>3, <1>5, <2>1
<1>6. CASE StoreRefreshToken(c) \/ SetPassword(c)
  <2>1. UNCHANGED <<reset, issued>>
    BY <1>6 DEF StoreRefreshToken, SetPassword
  <2>2. call'[c].pc # "write"
    BY <1>0, <1>6, GoesOn DEF StoreRefreshToken, SetPassword
  <2>3. Timely(c)'
    BY <2>2 DEF Timely, At
  <2> QED BY <1>1, <1>3, <2>1, <2>3
<1>7. CASE StoreResetToken(c)
  <2>1. issued[c] = NoUser
    BY <1>0, <1>7 DEF StoreResetToken, Issues
  <2>2. call'[c].pc # "write"
    BY <1>0, <1>7, GoesOn DEF StoreResetToken
  <2>3. issued'[c] = call[c].user /\ \A d \in Call \ {c} : issued'[d] = issued[d]
    BY <1>0, <1>7 DEF StoreResetToken, TypeOK
  <2>4. PICK row : row.id = c /\ reset' = reset \cup {row}
    BY <1>7 DEF StoreResetToken
  <2>5. ASSUME NEW d \in Call \ {c}, At(d, "ResetPassword", "write") PROVE Timely(d)'
    <3>1. call[d].token \in Call /\ call[d].user \in User
      BY <1>0, <2>5 DEF At, Carries, Running
    <3>2. call[d].token # c
      BY <1>0, <2>1, <2>5, <3>1, CredentialAssumption DEF Timely
    <3> QED BY <1>0, <1>1, <1>2, <2>3, <2>4, <2>5, <3>1, <3>2 DEF Timely
  <2> QED BY <1>1, <2>2, <2>5 DEF Timely, At
<1>8. Ending(c) => Finish(c) /\ reset' \subseteq reset /\ issued' = issued
  BY EndingStep
<1>9. Reply(c) \/ DeleteResetTokens(c) => Finish(c) /\ reset' \subseteq reset /\ issued' = issued
  BY DEF Reply, DeleteResetTokens
<1> QED BY <1>4, <1>5, <1>6, <1>7, <1>8, <1>9, StepCases

LEMMA InvStep == IInv /\ [Next]_vars => IInv'
<1> SUFFICES ASSUME IInv, [Next]_vars PROVE IInv'
  OBVIOUS
<1>1. ASSUME NEW c \in Call, Step(c) PROVE IInv'
  BY <1>1, TypesStep, CarriesStep, IssuesStep, TokensStep, TimelyStep DEF IInv
<1>2. CASE Tick
  <2>1. /\ UNCHANGED <<user, hash, refresh, reset, handed, call, issued, spent, revoked>>
        /\ now' = now + 1
        /\ \A c \in Call : At(c, "ResetPassword", "write") => now - call[c].at < ResetDelay
    BY <1>2 DEF Tick, tables, history
  <2>2. TypeOK /\ \A c \in Call : call[c].at \in Nat
    BY DEF IInv, TypeOK, Request
  <2>3. TypeOK'
    BY <2>1, <2>2 DEF TypeOK
  <2>4. Tokens'
    BY <2>1 DEF IInv, Tokens
  <2>5. ASSUME NEW c \in Call PROVE Carries(c)' /\ Issues(c)'
    BY <2>1 DEF IInv, Carries, Issues, Running, At
  <2>6. ASSUME NEW c \in Call PROVE Timely(c)'
    <3>1. now \in Nat /\ call[c].at \in Nat /\ ResetDelay \in Nat
      BY <2>2, CredentialAssumption DEF TypeOK
    <3> QED BY <2>1, <3>1 DEF IInv, Timely, At
  <2> QED BY <2>3, <2>4, <2>5, <2>6 DEF IInv
<1>3. CASE UNCHANGED vars
  BY <1>3 DEF vars, tables, history, IInv, TypeOK, Carries, Issues, Tokens, Timely, At, Running
<1> QED BY <1>1, <1>2, <1>3 DEF Next, Over

LEMMA Invariant == Spec => []IInv
<1>1. Init => IInv
  BY InitInv
<1>2. IInv /\ [Next]_vars => IInv'
  BY InvStep
<1> QED BY <1>1, <1>2, PTL DEF Spec

-----------------------------------------------------------------------------
(* Credentials' state keeps its types, whoever runs and fails.                *)
THEOREM TypeCorrect == Spec => []TypeOK
<1>1. IInv => TypeOK
  BY DEF IInv
<1> QED BY <1>1, Invariant, PTL

(* ResetPassword writes for the user its token was issued to, and no later    *)
(* than the token's life and its own delay allow.                             *)
THEOREM ResetsInTime == Spec => []ResetInTime
<1>1. IInv => ResetInTime
  <2> SUFFICES ASSUME IInv, NEW c \in Call, At(c, "ResetPassword", "write")
               PROVE  /\ issued[call[c].token] = call[c].user
                      /\ \A r \in reset : r.id = call[c].token => now < r.exp + ResetDelay
    BY DEF ResetInTime
  <2>1. /\ issued[call[c].token] = call[c].user /\ now <= call[c].at + ResetDelay
        /\ \A r \in reset : r.id = call[c].token => r.exp > call[c].at
    BY DEF IInv, Timely
  <2>2. now \in Nat /\ call[c].at \in Nat /\ ResetDelay \in Nat /\ \A r \in reset : r.exp \in Nat
    BY CredentialAssumption DEF IInv, TypeOK, Request, ResetRow
  <2> QED BY <2>1, <2>2
<1> QED BY <1>1, Invariant, PTL

(* Login's refresh tokens, once a client has one, last until Logout and no    *)
(* longer.                                                                    *)
THEOREM SessionsLast == Spec => []SessionsKept
<1>1. IInv => SessionsKept
  BY DEF IInv, TypeOK, Issues, SessionsKept
<1> QED BY <1>1, Invariant, PTL

(* ResetPassword never begins with a token that was issued before a reset of  *)
(* the same user cleaned up.                                                  *)
THEOREM SpentStayDead == Spec => SpentTokensStayDead
<1>1. IInv /\ [Next]_vars =>
        [\A c \in Call : call[c].pc = "new" /\ call'[c].op = "ResetPassword"
            => call'[c].token \notin spent]_vars
  <2> SUFFICES ASSUME IInv, [Next]_vars, NEW d \in Call,
                      call[d].pc = "new", call'[d].op = "ResetPassword"
               PROVE  call'[d].token \notin spent
    OBVIOUS
  <2>0. TypeOK /\ Carries(d) /\ Tokens
    BY DEF IInv
  <2>1. call'[d] # call[d]
    BY <2>0 DEF Carries
  <2>2. Step(d)
    BY <2>1, CarriesStep DEF Next, Tick, Over, vars
  <2>3. Beginning(d)
    <3>1. ~ Finish(d)
      BY <2>0, Ends
    <3> QED BY <2>0, <2>2, <3>1, StepCases, EndingStep
            DEF Reply, DeleteResetTokens, StoreRefreshToken, StoreResetToken, SetPassword, At,
                Carries
  <2> QED BY <2>0, <2>3, BeginningStep DEF Read, Tokens
<1> QED BY <1>1, Invariant, PTL DEF Spec, SpentTokensStayDead

-----------------------------------------------------------------------------
(* Passwords and rows change at the requests' writes only. *)

\* a row that there is stays, and takes the password of a request in flight or
\* keeps its own
LEMMA RowStep ==
  ASSUME IInv, NEW c \in Call, Step(c), NEW u \in User, user[u] # "absent"
  PROVE  /\ user'[u] # "absent"
         /\ \/ hash'[u] = hash[u]
            \/ /\ Writes(c, u, hash'[u])
               /\ At(c, "ResetPassword", "write") => user[u] = "live"
<1> USE DEF tables, history
<1>0. TypeOK
  BY DEF IInv
<1>1. CASE UNCHANGED <<user, hash>>
  BY <1>1
<1>2. CASE SetPassword(c)
  BY <1>0, <1>2 DEF SetPassword, At, Writes, Found, TypeOK
<1>3. ASSUME NEW v \in User, NEW p \in Hash, CreateUser(c, v, p)
      PROVE  user'[u] = user[u] /\ hash'[u] = hash[u]
  BY <1>0, <1>3 DEF CreateUser, TypeOK
<1>4. CASE UpdateUser(c)
  BY <1>0, <1>4 DEF UpdateUser, At, Writes, TypeOK
<1>5. CASE DeleteUser(c)
  BY <1>0, <1>5 DEF DeleteUser, TypeOK
<1>6. Beginning(c) => UNCHANGED <<user, hash>>
  BY <1>0, BeginningStep
<1>7. ASSUME \/ \E d \in Call : Logout(c, d)
             \/ Fail(c) \/ StoreRefreshToken(c) \/ Reply(c) \/ StoreResetToken(c)
             \/ DeleteResetTokens(c)
      PROVE  UNCHANGED <<user, hash>>
  BY <1>7 DEF Logout, Fail, StoreRefreshToken, Reply, StoreResetToken, DeleteResetTokens
<1> QED BY <1>1, <1>2, <1>3, <1>4, <1>5, <1>6, <1>7, StepCases DEF Ending

\* who is about to write was so before, or begins
LEMMA WritersBegin ==
  ASSUME IInv, NEW c \in Call, Step(c), NEW d \in Call, call'[d] # call[d], Running(d)'
  PROVE  d = c /\ (Beginning(c) \/ call'[c].pc \in {"reply", "clean"})
<1>0. TypeOK
  BY DEF IInv
<1>1. d = c
  BY CarriesStep
<1>2. ~ Finish(c)
  BY <1>0, <1>1, Ends DEF Running
<1>3. StoreRefreshToken(c) \/ StoreResetToken(c) \/ SetPassword(c)
        => call'[c].pc \in {"reply", "clean"}
  BY <1>0, GoesOn DEF StoreRefreshToken, StoreResetToken, SetPassword
<1> QED BY <1>1, <1>2, <1>3, StepCases, EndingStep DEF Reply, DeleteResetTokens

(* A password that a row no longer has and that no UpdateUser or              *)
(* ResetPassword in flight is about to write comes back only when a request   *)
(* that asks for it begins.                                                   *)
THEOREM PasswordsSettle == Spec => OldPasswordSettles
<1>1. IInv /\ [Next]_vars =>
        [\A u \in User, p \in Password : Gone(u, p) /\ ~ Gone(u, p)' =>
           \E c \in Call : call[c].pc = "new" /\ call'[c].want = p /\ Writes(c, u, p)']_vars
  <2> SUFFICES ASSUME IInv, [Next]_vars, NEW u \in User, NEW p \in Password,
                      Gone(u, p), ~ Gone(u, p)'
               PROVE  \E c \in Call :
                        call[c].pc = "new" /\ call'[c].want = p /\ Writes(c, u, p)'
    OBVIOUS
  <2>1. ~ (UNCHANGED <<user, hash, call>>)
    BY DEF Gone, Writes
  <2>2. PICK c \in Call : Step(c)
    BY <2>1 DEF Next, Tick, Over, vars, tables
  <2>3. user[u] # "absent" /\ hash[u] # p /\ \A d \in Call : ~ Writes(d, u, p)
    BY DEF Gone
  <2>4. user'[u] # "absent" /\ hash'[u] # p
    BY <2>2, <2>3, RowStep
  <2>5. PICK d \in Call : Writes(d, u, p)'
    BY <2>4 DEF Gone
  <2>6. call'[d] # call[d] /\ Running(d)'
    BY <2>3, <2>5 DEF Writes, Running
  <2>7. d = c /\ Beginning(c)
    BY <2>2, <2>5, <2>6, WritersBegin DEF Writes
  <2>8. call[c].pc = "new" /\ Read(c)
    BY <2>7, BeginningStep DEF IInv
  <2>9. call'[c].want = p
    BY <2>3, <2>5, <2>7, <2>8 DEF Read, Writes
  <2> QED BY <2>5, <2>7, <2>8, <2>9
<1> QED BY <1>1, Invariant, PTL DEF Spec, OldPasswordSettles

(* Once no UpdateUser that read it is in flight, a deleted account keeps its  *)
(* password, and no Login, ForgotPassword, UpdateUser or DeleteUser of it     *)
(* begins.                                                                    *)
THEOREM DeletedStayInert == Spec => DeletedAccountInert
<1>1. IInv /\ [Next]_vars =>
        [\A u \in User : Inert(u) =>
           /\ hash'[u] = hash[u]
           /\ \A c \in Call : call[c].pc = "new" /\ call'[c].user = u
                => call'[c].op = "ResetPassword"]_vars
  <2> SUFFICES ASSUME IInv, [Next]_vars, NEW u \in User, Inert(u)
               PROVE  /\ hash'[u] = hash[u]
                      /\ \A d \in Call : call[d].pc = "new" /\ call'[d].user = u
                           => call'[d].op = "ResetPassword"
    OBVIOUS
  <2>1. user[u] = "deleted" /\ \A d \in Call : ~ (At(d, "UpdateUser", "write") /\ call[d].user = u)
    BY DEF Inert
  <2>2. hash'[u] = hash[u]
    <3>1. ASSUME NEW c \in Call, Step(c) PROVE hash'[u] = hash[u]
      <4>1. \/ hash'[u] = hash[u]
            \/ Writes(c, u, hash'[u]) /\ (At(c, "ResetPassword", "write") => user[u] = "live")
        BY <2>1, <3>1, RowStep
      <4> QED BY <2>1, <4>1 DEF Writes, At
    <3> QED BY <3>1 DEF Next, Tick, Over, vars, tables
  <2>3. ASSUME NEW d \in Call, call[d].pc = "new", call'[d].user = u
        PROVE  call'[d].op = "ResetPassword"
    <3>1. call[d].user = NoUser /\ u # NoUser
      BY <2>3, CredentialAssumption DEF IInv, Carries
    <3>2. PICK c \in Call : Step(c)
      BY <2>3, <3>1 DEF Next, Tick, Over, vars
    <3>3. Running(d)'
      <4>1. Carries(d)'
        BY <3>2, CarriesStep
      <4> QED BY <2>3, <3>1, <4>1 DEF Carries, Running
    <3>4. d = c
      BY <2>3, <3>1, <3>2, CarriesStep
    <3>5. Beginning(c)
      <4>1. ~ (StoreRefreshToken(c) \/ StoreResetToken(c) \/ SetPassword(c))
        BY <2>3, <3>4 DEF StoreRefreshToken, StoreResetToken, SetPassword, At, IInv, Carries
      <4>2. ~ Finish(c)
        BY <3>3, <3>4, Ends DEF IInv, Running
      <4> QED BY <3>2, <4>1, <4>2, StepCases, EndingStep DEF Reply, DeleteResetTokens
    <3> QED BY <2>1, <2>3, <3>4, <3>5, BeginningStep DEF Read, Found, IInv
  <2> QED BY <2>2, <2>3
<1> QED BY <1>1, Invariant, PTL DEF Spec, DeletedAccountInert
=============================================================================
