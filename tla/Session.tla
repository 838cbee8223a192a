------------------------------- MODULE Session -------------------------------
(***************************************************************************)
(* The session of frontend-a, the shell, in one tab of a browser.  The     *)
(* tokens are in localStorage, which all tabs share; the tab has React     *)
(* state of its own: the access token it believes in, the user it shows,   *)
(* the `loading' flag of its first load, its path.  A change of state is   *)
(* rendered later, and the effects of a render run later still; requests   *)
(* are answered, or fail, in any order, whatever became of what they were  *)
(* sent for.  The other tabs, which run the same code, reach this one by   *)
(* what they do to the storage only: Elsewhere.                            *)
(*                                                                         *)
(* The gateway is reduced to its answers: GET /auth/me names the owner of  *)
(* the token it is sent or fails, POST /auth/login issues a new token.     *)
(***************************************************************************)
EXTENDS Integers, FiniteSets

CONSTANTS
  Token,        \* access tokens
  NoToken,
  User,
  Nobody,
  Owner,        \* Owner[k]: the user whom token k is issued to
  FirstTokens,  \* what the storage may hold at the start
  MaxFlights,   \* bound on what a user has the tab do at a time
  MaxReloads    \* bound on the reloads of the tab

ASSUME OwnerAssumption == Owner \in [Token -> User]
ASSUME NoTokenAssumption == NoToken \notin Token
ASSUME NobodyAssumption == Nobody \notin User
ASSUME FirstAssumption == FirstTokens \subseteq Token \cup {NoToken}
ASSUME BoundAssumption == MaxReloads \in Nat

VARIABLES
  stored,     \* the access token in localStorage
  token,      \* accessToken, the React state
  user,       \* the user shown
  loading,
  path,       \* "login", or "app" for the pages behind RequireAuth
  rendered,   \* token and path of the last render
  due,        \* the effects of that render, if they did not run yet
  flights,    \* requests under way
  reloads,
  (* history, read by the properties only *)
  spent,      \* the tokens that have left the storage
  late        \* whether the user came with the answer for another token

tab == <<token, user, loading, path, rendered, due>>
vars == <<stored, tab, flights, reloads, spent, late>>

-----------------------------------------------------------------------------
(* localStorage: setTokens, and clearTokens with NoToken. *)

Store(k) ==
  /\ stored' = k
  /\ spent' = spent \cup ({stored} \ {k, NoToken})

KeepStored == UNCHANGED <<stored, spent>>

(* Requests.  n tells apart those alike; live is what an effect's cleanup    *)
(* takes away.                                                               *)

Number == CHOOSE n \in 1 .. Cardinality(flights) + 1 : \A f \in flights : f.n # n

Flight(kind, k) == [n |-> Number, kind |-> kind, token |-> k, live |-> TRUE]

\* mutant: the token of React's state, not the one of the storage
StateToken == token

HeaderToken == stored

Send(kind) == flights' = flights \cup {Flight(kind, HeaderToken)}

Land(f) == flights' = flights \ {f}

-----------------------------------------------------------------------------
(* The provider: renders, their effects, answers, the storage read again. *)

Show(u) == user' = u /\ late' = FALSE

ShowSame == UNCHANGED <<user, late>>

Page == [token |-> token, path |-> path]

\* mutant: the effect that asks for the user runs on mount only
SessionEffectOnMount == {}

SessionEffect == IF token # rendered.token THEN {"session"} ELSE {}

LocationEffect == IF path = "login" /\ rendered.path # "login" THEN {"location"} ELSE {}

\* React runs the effects of a render before it renders again
Render ==
  /\ due = {} /\ rendered # Page
  /\ rendered' = Page
  /\ due' = SessionEffect \cup LocationEffect
  /\ UNCHANGED <<stored, token, user, loading, path, flights, reloads, spent, late>>

\* mutant: refreshMe does not look whether there is a token
SignedOutUnread == rendered.token = NoToken

SignedOut == rendered.token = NoToken \/ stored = NoToken

Cancelled == {[f EXCEPT !.live = f.live /\ f.kind # "session"] : f \in flights}

\* mutant: refreshMe leaves early, and the flag as it is
NothingToAwaitUnread == rendered.token = NoToken

\* finally: the flag goes down at once if there is no answer to wait for
NothingToAwait == rendered.token = NoToken \/ stored = NoToken

\* on /login the storage is read again; then the user of its token is asked for
Flush ==
  LET resync == "location" \in due
      load   == "session" \in due
      gone   == resync /\ stored = NoToken
  IN  /\ due # {}
      /\ token' = IF resync THEN stored ELSE token
      /\ IF gone \/ (load /\ SignedOut) THEN Show(Nobody) ELSE ShowSame
      /\ loading' = (loading /\ ~ gone /\ ~ (load /\ NothingToAwait))
      /\ flights' = IF ~ load THEN flights
                    ELSE IF SignedOut THEN Cancelled
                    ELSE Cancelled \cup {Flight("session", HeaderToken)}
      /\ due' = {}
      /\ KeepStored
      /\ UNCHANGED <<path, rendered, reloads>>

EndsLoading(f) == f.kind = "session" /\ f.live

\* setUser, even if the effect was cancelled meanwhile
MeAnswered(f) ==
  /\ f.kind \in {"session", "refresh"}
  /\ user' = Owner[f.token] /\ late' = (f.token # token)
  /\ loading' = (loading /\ ~ EndsLoading(f))
  /\ Land(f)
  /\ KeepStored
  /\ UNCHANGED <<token, path, rendered, due, reloads>>

\* whatever the storage holds by now is cleared
SessionFails(f) ==
  /\ f.kind = "session"
  /\ Store(NoToken)
  /\ token' = NoToken
  /\ Show(Nobody)
  /\ loading' = (loading /\ ~ EndsLoading(f))
  /\ Land(f)
  /\ UNCHANGED <<path, rendered, due, reloads>>

Visible ==
  /\ token' = stored
  /\ IF stored = NoToken THEN Show(Nobody) /\ loading' = FALSE ELSE ShowSame /\ UNCHANGED loading
  /\ KeepStored
  /\ UNCHANGED <<path, rendered, due, flights, reloads>>

\* RequireAuth
Redirect ==
  /\ rendered = [token |-> NoToken, path |-> "app"] /\ ~ loading
  /\ path' = "login"
  /\ KeepStored
  /\ UNCHANGED <<token, user, loading, rendered, due, flights, reloads, late>>

-----------------------------------------------------------------------------
(* What the user does, by the page shown: one behind RequireAuth, or on      *)
(* /login the form, or "Already signed in".                                  *)

InApp == rendered.path = "app" /\ rendered.token # NoToken /\ ~ loading
AlreadySignedIn ==
  rendered.path = "login" /\ rendered.token # NoToken /\ user # Nobody /\ ~ loading
FormShown == rendered.path = "login" /\ ~ loading /\ ~ AlreadySignedIn

Idle == Cardinality(flights) < MaxFlights

Continue ==
  /\ AlreadySignedIn
  /\ path' = "app"
  /\ KeepStored
  /\ UNCHANGED <<token, user, loading, rendered, due, flights, reloads, late>>

\* the form is disabled while its request runs
Login ==
  /\ FormShown /\ Idle
  /\ \A f \in flights : f.kind # "login"
  /\ flights' = flights \cup {Flight("login", NoToken)}
  /\ KeepStored
  /\ UNCHANGED <<tab, reloads, late>>

Issued(k) == k \in spent \cup {stored}

LoggedIn(f) ==
  /\ f.kind = "login"
  /\ \E k \in Token : ~ Issued(k) /\ Store(k) /\ token' = k /\ Show(Owner[k])
  /\ path' = "app"
  /\ Land(f)
  /\ UNCHANGED <<loading, rendered, due, reloads>>

Logout ==
  /\ InApp \/ AlreadySignedIn
  /\ Idle
  /\ Send("logout")
  /\ KeepStored
  /\ UNCHANGED <<tab, reloads, late>>

\* answered or not
LoggedOut(f) ==
  /\ f.kind = "logout"
  /\ Store(NoToken)
  /\ token' = NoToken
  /\ Show(Nobody)
  /\ path' = "login"
  /\ Land(f)
  /\ UNCHANGED <<loading, rendered, due, reloads>>

Refresh ==
  /\ InApp /\ Idle
  /\ IF stored = NoToken THEN Show(Nobody) /\ UNCHANGED flights
                         ELSE ShowSame /\ Send("refresh")
  /\ KeepStored
  /\ UNCHANGED <<token, loading, path, rendered, due, reloads>>

\* any other call of a page: users, roles, memberships, audit rows
Act ==
  /\ InApp /\ Idle
  /\ Send("act")
  /\ KeepStored
  /\ UNCHANGED <<tab, reloads, late>>

\* the page shows the result, or the error
Ended(f) ==
  /\ f.kind \in {"act", "login", "refresh"}
  /\ Land(f)
  /\ KeepStored
  /\ UNCHANGED <<tab, reloads, late>>

\* another tab signs in, signs out, or is refused its user
Elsewhere ==
  /\ \E k \in Token \cup {NoToken} : (k = NoToken \/ ~ Issued(k)) /\ Store(k)
  /\ UNCHANGED <<tab, flights, reloads, late>>

Mounted == {"session"} \cup (IF path = "login" THEN {"location"} ELSE {})

Reload ==
  /\ reloads < MaxReloads
  /\ reloads' = reloads + 1
  /\ token' = stored
  /\ Show(Nobody) /\ loading' = TRUE
  /\ rendered' = [token |-> stored, path |-> path]
  /\ due' = Mounted
  /\ flights' = {}
  /\ KeepStored
  /\ UNCHANGED path

Init ==
  /\ stored \in FirstTokens /\ token = stored
  /\ user = Nobody /\ loading = TRUE
  /\ path \in {"login", "app"}
  /\ rendered = Page
  /\ due = Mounted
  /\ flights = {}
  /\ reloads = 0
  /\ spent = {} /\ late = FALSE

Hear(f) == MeAnswered(f) \/ SessionFails(f) \/ LoggedIn(f) \/ LoggedOut(f) \/ Ended(f)

Next ==
  \/ Render \/ Flush \/ Visible \/ Redirect
  \/ Continue \/ Login \/ Logout \/ Refresh \/ Act \/ Reload
  \/ \E f \in flights : Hear(f)
  \/ Elsewhere

\* React renders and runs effects; the requests of effects end some time
Fairness ==
  /\ WF_vars(Render)
  /\ WF_vars(Flush)
  /\ WF_vars(\E f \in flights : f.kind = "session" /\ (MeAnswered(f) \/ SessionFails(f)))

Spec == Init /\ [][Next]_vars /\ Fairness
-----------------------------------------------------------------------------
(* Properties. *)

AnyToken == Token \cup {NoToken}

TypeOK ==
  /\ stored \in AnyToken /\ token \in AnyToken
  /\ user \in User \cup {Nobody}
  /\ loading \in BOOLEAN
  /\ path \in {"login", "app"}
  /\ rendered \in [token : AnyToken, path : {"login", "app"}]
  /\ due \subseteq {"session", "location"}
  /\ \A f \in flights :
       /\ f.n \in Nat /\ f.live \in BOOLEAN
       /\ \/ f.kind \in {"session", "refresh"} /\ f.token \in Token
          \/ f.kind \in {"act", "logout", "login"} /\ f.token \in AnyToken
  /\ reloads \in 0 .. MaxReloads
  /\ spent \subseteq Token
  /\ late \in BOOLEAN

(* The user the tab shows is the owner of the token it believes in, unless    *)
(* the user of a token just taken over is still being asked for, or the       *)
(* answer for another token came last (refreshMe sets whatever comes back,    *)
(* cancelled or not).  A tab that found the storage emptied, was refused its  *)
(* user or signed out shows nobody.                                           *)
Asking ==
  /\ token # NoToken
  /\ \/ rendered.token # token
     \/ "session" \in due
     \/ \E f \in flights : f.kind = "session" /\ f.live

ShownUserExplained ==
  \/ user = Nobody
  \/ token # NoToken /\ user = Owner[token]
  \/ Asking
  \/ late

(* Once a token has left the storage, whichever tab removed or replaced it,   *)
(* this one does not send it any more: requests take theirs from the storage, *)
(* however long the tab has not looked and whatever token it believes in.     *)
SpentTokensAreNotSent ==
  [][\A f \in flights' \ flights : f.live => f.token \notin spent]_vars

(* The tab gets past "Loading": the first load ends although its effect may   *)
(* be cancelled by a change of token, which leaves the flag to the next one.  *)
LoadingEnds == loading ~> ~ loading
=============================================================================
