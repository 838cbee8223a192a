---------------------------- MODULE Session_proofs ----------------------------
(***************************************************************************)
(* Proofs about Session, for any tokens, users and numbers of requests and *)
(* reloads: whom the tab shows, with which token it asks, and that it does *)
(* not say "Loading" with nothing to end that, whatever the other tabs do  *)
(* and in whichever order answers come.                                    *)
(***************************************************************************)
EXTENDS Session, FiniteSetTheorems, TLAPS

Kinds == {"session", "refresh", "act", "logout", "login"}

AFlight == [n : Nat, kind : Kinds, token : AnyToken, live : BOOLEAN]

(* TypeOK says of a request what each field is; in a proof it is a record,    *)
(* and there are finitely many, so that there is a number for the next one.   *)
FlightsInv ==
  /\ flights \in SUBSET AFlight
  /\ IsFiniteSet(flights)
  /\ \A f \in flights : f.kind \in {"session", "refresh"} => f.token \in Token

\* what TypeOK says of the tab, but for the requests
TabTypes ==
  /\ stored \in AnyToken /\ token \in AnyToken
  /\ user \in User \cup {Nobody}
  /\ path \in {"login", "app"}
  /\ rendered \in [token : AnyToken, path : {"login", "app"}]
  /\ due \subseteq {"session", "location"}
  /\ reloads \in 0 .. MaxReloads
  /\ spent \subseteq Token

FlagTypes == loading \in BOOLEAN /\ late \in BOOLEAN

Types == TabTypes /\ FlagTypes /\ FlightsInv

-----------------------------------------------------------------------------
(* Sets of requests. *)

LEMMA NumberType ==
  ASSUME FlightsInv
  PROVE  Number \in Nat
<1> DEFINE m == Cardinality(flights)
           nums == {f.n : f \in flights}
           numbered == [f \in flights |-> f.n]
<1>1. numbered \in Surjection(flights, nums)
  BY DEF Surjection
<1>2. IsFiniteSet(nums) /\ Cardinality(nums) <= m
  BY <1>1, FS_Surjection DEF FlightsInv
<1>3. m \in Nat /\ Cardinality(nums) \in Nat
  BY <1>2, FS_CardinalityType DEF FlightsInv
<1>4. IsFiniteSet(1 .. m + 1) /\ Cardinality(1 .. m + 1) = m + 1
  <2>1. PICK b \in Int : b = m + 1
    BY <1>3
  <2>2. IsFiniteSet(1 .. b) /\ Cardinality(1 .. b) = IF 1 > b THEN 0 ELSE b - 1 + 1
    BY FS_Interval
  <2> QED BY <1>3, <2>1, <2>2
<1>5. ~ (1 .. m + 1 \subseteq nums)
  <2>1. SUFFICES ASSUME 1 .. m + 1 \in SUBSET nums PROVE FALSE
    OBVIOUS
  <2>2. Cardinality(1 .. m + 1) <= Cardinality(nums)
    BY <1>2, <2>1, FS_Subset
  <2> QED BY <1>2, <1>3, <1>4, <2>2
<1>6. PICK n \in 1 .. m + 1 : \A f \in flights : f.n # n
  BY <1>5
<1>7. Number \in 1 .. m + 1
  BY <1>6 DEF Number
<1> QED BY <1>3, <1>7

LEMMA FlightType ==
  ASSUME FlightsInv, NEW kind \in Kinds, NEW k \in AnyToken
  PROVE  /\ Flight(kind, k) \in AFlight
         /\ Flight(kind, k).kind = kind /\ Flight(kind, k).token = k
         /\ Flight(kind, k).live = TRUE
  BY NumberType DEF Flight, AFlight

LEMMA WithFlight ==
  ASSUME FlightsInv, NEW kind \in Kinds, NEW k \in AnyToken,
         kind \in {"session", "refresh"} => k \in Token,
         flights' = flights \cup {Flight(kind, k)}
  PROVE  FlightsInv'
<1>1. IsFiniteSet(flights')
  BY FS_AddElement DEF FlightsInv
<1>2. flights' \in SUBSET AFlight
  BY FlightType DEF FlightsInv
<1>3. \A f \in flights' : f.kind \in {"session", "refresh"} => f.token \in Token
  <2> DEFINE new == Flight(kind, k)
  <2>1. new.kind = kind /\ new.token = k
    BY FlightType
  <2> HIDE DEF new
  <2>2. flights' = flights \cup {new}
    BY DEF new
  <2> QED BY <2>1, <2>2 DEF FlightsInv
<1> QED BY <1>1, <1>2, <1>3 DEF FlightsInv, AFlight, AnyToken

LEMMA LandInv ==
  ASSUME FlightsInv, NEW f \in flights, Land(f)
  PROVE  FlightsInv'
<1>1. IsFiniteSet(flights')
  BY FS_RemoveElement DEF FlightsInv, Land
<1>2. flights' \subseteq flights
  BY DEF Land
<1> QED BY <1>1, <1>2 DEF FlightsInv, AFlight, AnyToken

LEMMA CancelledType ==
  ASSUME FlightsInv
  PROVE  /\ Cancelled \in SUBSET AFlight
         /\ IsFiniteSet(Cancelled)
         /\ \A c \in Cancelled : \E f \in flights : c.kind = f.kind /\ c.token = f.token
         /\ \A c \in Cancelled : c.live => c \in flights
<1> DEFINE C(f) == [f EXCEPT !.live = f.live /\ f.kind # "session"]
           cancel == [f \in flights |-> C(f)]
<1>1. ASSUME NEW f \in flights
      PROVE  /\ C(f) \in AFlight /\ C(f).kind = f.kind /\ C(f).token = f.token
             /\ C(f).live => C(f) = f
  <2>1. f \in AFlight /\ f.live \in BOOLEAN
    BY DEF FlightsInv, AFlight
  <2>2. CASE f.kind # "session"
    <3>1. C(f) = f
      BY <2>1, <2>2 DEF AFlight
    <3> QED BY <2>1, <3>1
  <2>3. CASE f.kind = "session"
    <3>1. C(f) = [f EXCEPT !.live = FALSE]
      BY <2>1, <2>3
    <3> QED BY <2>1, <3>1 DEF AFlight
  <2> QED BY <2>2, <2>3
<1>2. Cancelled = {C(f) : f \in flights}
  BY DEF Cancelled
<1> HIDE DEF C
<1>3. cancel \in Surjection(flights, Cancelled)
  BY <1>2 DEF Surjection
<1>4. IsFiniteSet(Cancelled)
  BY <1>3, FS_Surjection DEF FlightsInv
<1> QED BY <1>1, <1>2, <1>4

-----------------------------------------------------------------------------
(* Types. *)

LEMMA InitTypes == Init => Types
<1> SUFFICES ASSUME Init PROVE Types
  OBVIOUS
<1>1. stored \in AnyToken
  BY FirstAssumption DEF Init, AnyToken
<1>2. loading \in BOOLEAN /\ late \in BOOLEAN
  BY DEF Init
<1>3. TabTypes
  <2>1. 0 \in 0 .. MaxReloads
    BY BoundAssumption
  <2>2. rendered \in [token : AnyToken, path : {"login", "app"}]
    BY <1>1 DEF Init, Page
  <2> QED BY <1>1, <2>1, <2>2 DEF Init, TabTypes, Mounted
<1>4. FlightsInv
  BY FS_EmptySet DEF Init, FlightsInv
<1> QED BY <1>2, <1>3, <1>4 DEF Types, FlagTypes

LEMMA StoreType ==
  ASSUME TabTypes, NEW k \in AnyToken, Store(k)
  PROVE  stored' \in AnyToken /\ spent' \in SUBSET Token
  BY DEF Store, TabTypes, AnyToken

LEMMA TypesSuffice == Types => TypeOK
<1> SUFFICES ASSUME Types PROVE TypeOK
  OBVIOUS
<1>1. ASSUME NEW f \in flights
      PROVE  /\ f.n \in Nat /\ f.live \in BOOLEAN
             /\ \/ f.kind \in {"session", "refresh"} /\ f.token \in Token
                \/ f.kind \in {"act", "logout", "login"} /\ f.token \in AnyToken
  BY DEF Types, FlightsInv, AFlight, Kinds
<1>2. loading \in BOOLEAN
  BY DEF Types, FlagTypes
<1>3. late \in BOOLEAN
  BY DEF Types, FlagTypes
<1> QED BY <1>1, <1>2, <1>3 DEF Types, TypeOK, TabTypes


LEMMA FlagsStep ==
  ASSUME Types, [Next]_vars
  PROVE  FlagTypes'
<1>1. loading \in BOOLEAN /\ late \in BOOLEAN
  BY DEF Types, FlagTypes
<1> USE <1>1 DEF FlagTypes, tab, Show, ShowSame
<1>2. ASSUME NEW f \in flights, Hear(f) PROVE FlagTypes'
  BY <1>2 DEF Hear, MeAnswered, SessionFails, LoggedIn, LoggedOut, Ended
<1>3. CASE Flush
  <2>1. loading' \in BOOLEAN
    BY <1>3 DEF Flush
  <2>2. late' \in BOOLEAN
    BY <1>3 DEF Flush
  <2> QED BY <2>1, <2>2
<1>4. CASE Render \/ Redirect \/ Continue \/ Login \/ Logout \/ Act \/ Elsewhere \/ UNCHANGED vars
  BY <1>4 DEF Render, Redirect, Continue, Login, Logout, Act, Elsewhere, vars
<1>5. CASE Visible \/ Refresh \/ Reload
  BY <1>5 DEF Visible, Refresh, Reload
<1> QED BY <1>2, <1>3, <1>4, <1>5 DEF Next

LEMMA FlightsStep ==
  ASSUME Types, [Next]_vars
  PROVE  FlightsInv'
<1>1. FlightsInv /\ stored \in AnyToken /\ NoToken \in AnyToken
  BY DEF Types, TabTypes, AnyToken
<1>2. ASSUME UNCHANGED flights PROVE FlightsInv'
  BY <1>1, <1>2 DEF FlightsInv, AFlight, AnyToken
<1>3. ASSUME NEW f \in flights, Hear(f) PROVE FlightsInv'
  BY <1>1, <1>3, LandInv
     DEF Hear, MeAnswered, SessionFails, LoggedIn, LoggedOut, Ended
<1>4. CASE Flush
  <2>1. CASE "session" \notin due
    BY <1>2, <1>4, <2>1 DEF Flush
  <2>2. CASE "session" \in due /\ SignedOut
    <3>1. flights' = Cancelled
      BY <1>4, <2>2 DEF Flush
    <3> QED BY <1>1, <3>1, CancelledType DEF FlightsInv, AFlight, AnyToken
  <2>3. CASE "session" \in due /\ ~ SignedOut
    <3> DEFINE new == Flight("session", stored)
    <3>1. stored \in Token /\ "session" \in Kinds
      BY <1>1, <2>3 DEF SignedOut, AnyToken, Kinds
    <3>2. new \in AFlight /\ new.token = stored
      BY <1>1, <3>1, FlightType
    <3> HIDE DEF new
    <3>3. flights' = Cancelled \cup {new}
      BY <1>4, <2>3 DEF Flush, HeaderToken, new
    <3>4. IsFiniteSet(flights')
      BY <1>1, <3>3, CancelledType, FS_AddElement
    <3> QED BY <1>1, <3>1, <3>2, <3>3, <3>4, CancelledType DEF FlightsInv, AFlight, AnyToken
  <2> QED BY <2>1, <2>2, <2>3
<1>5. ASSUME NEW kind \in {"act", "logout", "login"}, NEW k \in AnyToken,
             flights' = flights \cup {Flight(kind, k)}
      PROVE  FlightsInv'
  BY <1>1, <1>5, WithFlight DEF Kinds
<1>6. CASE Login \/ Logout \/ Act
  BY <1>1, <1>5, <1>6 DEF Login, Logout, Act, Send, HeaderToken
<1>7. CASE Refresh
  <2>1. CASE stored = NoToken
    BY <1>2, <1>7, <2>1 DEF Refresh
  <2>2. CASE stored # NoToken
    <3>1. flights' = flights \cup {Flight("refresh", stored)} /\ stored \in Token
      BY <1>1, <1>7, <2>2 DEF Refresh, Send, HeaderToken, AnyToken
    <3> QED BY <1>1, <3>1, WithFlight DEF Kinds
  <2> QED BY <2>1, <2>2
<1>8. CASE Reload
  <2>1. flights' = {}
    BY <1>8 DEF Reload
  <2> QED BY <2>1, FS_EmptySet DEF FlightsInv
<1>9. CASE Render \/ Visible \/ Redirect \/ Continue \/ Elsewhere \/ UNCHANGED vars
  BY <1>2, <1>9 DEF Render, Visible, Redirect, Continue, Elsewhere, vars
<1> QED BY <1>3, <1>4, <1>6, <1>7, <1>8, <1>9 DEF Next

LEMMA TabStep ==
  ASSUME Types, [Next]_vars
  PROVE  TabTypes'
<1>1. TabTypes /\ FlightsInv /\ Owner \in [Token -> User] /\ MaxReloads \in Nat
  BY OwnerAssumption, BoundAssumption DEF Types
<1>2. ASSUME NEW k \in AnyToken, Store(k) PROVE stored' \in AnyToken /\ spent' \subseteq Token
  BY <1>1, <1>2, StoreType
<1> USE <1>1 DEF TabTypes, AnyToken, tab, Show, ShowSame, KeepStored
<1>3. ASSUME NEW f \in flights, MeAnswered(f) PROVE TabTypes'
  <2>1. f.token \in Token
    BY <1>3 DEF MeAnswered, FlightsInv
  <2> QED BY <1>3, <2>1 DEF MeAnswered
<1>4. ASSUME NEW f \in flights, SessionFails(f) PROVE TabTypes'
  BY <1>2, <1>4 DEF SessionFails
<1>5. ASSUME NEW f \in flights, LoggedIn(f) PROVE TabTypes'
  BY <1>2, <1>5 DEF LoggedIn
<1>6. ASSUME NEW f \in flights, LoggedOut(f) PROVE TabTypes'
  BY <1>2, <1>6 DEF LoggedOut
<1>7. ASSUME NEW f \in flights, Ended(f) PROVE TabTypes'
  BY <1>7 DEF Ended
<1>8. CASE Render
  BY <1>8 DEF Render, Page, SessionEffect, LocationEffect
<1>9. CASE Flush
  <2>1. token' \in AnyToken /\ user' \in User \cup {Nobody} /\ due' = {}
    BY <1>9 DEF Flush
  <2>2. UNCHANGED <<stored, spent, path, rendered, reloads>>
    BY <1>9 DEF Flush
  <2> QED BY <2>1, <2>2
<1>10. CASE Visible \/ Redirect \/ Continue
  BY <1>10 DEF Visible, Redirect, Continue
<1>11. CASE Login \/ Logout \/ Act \/ Refresh
  BY <1>11 DEF Login, Logout, Act, Refresh
<1>12. CASE Reload
  BY <1>12 DEF Reload, Mounted
<1>13. CASE Elsewhere
  BY <1>2, <1>13 DEF Elsewhere
<1>14. CASE UNCHANGED vars
  BY <1>14 DEF vars
<1> QED
  BY <1>3, <1>4, <1>5, <1>6, <1>7, <1>8, <1>9, <1>10, <1>11, <1>12, <1>13, <1>14
  DEF Next, Hear

LEMMA TypesStep ==
  ASSUME Types, [Next]_vars
  PROVE  Types'
  BY TabStep, FlagsStep, FlightsStep DEF Types

(* The state of Session keeps its types. *)
THEOREM TypeCorrect == Spec => []TypeOK
<1>1. Spec => []Types
  BY InitTypes, TypesStep, PTL DEF Spec
<1> QED BY <1>1, TypesSuffice, PTL


-----------------------------------------------------------------------------
(* Tokens.  One in the storage is not spent, and comes there but once; so a   *)
(* tab whose state was set after its last render cannot find the token of     *)
(* that render in the storage any more, but no token.                         *)

TokensInv ==
  /\ stored \notin spent
  /\ token \in spent \cup {stored, NoToken}
  /\ rendered.token \in spent \cup {stored, NoToken}
  /\ rendered.token = stored /\ stored # NoToken => token = stored

LEMMA InitTokens == Init => TokensInv
  BY DEF Init, TokensInv, Page

\* what the steps that write the storage do to it
LEMMA StoredOnce ==
  ASSUME Types, TokensInv, NEW k \in AnyToken, k = NoToken \/ ~ Issued(k), Store(k)
  PROVE  /\ stored' = k /\ stored' \notin spent'
         /\ spent \cup {stored, NoToken} \subseteq spent' \cup {NoToken, stored'}
         /\ k # NoToken => rendered.token # k /\ token # k
  BY NoTokenAssumption DEF Types, TabTypes, TokensInv, Issued, Store, AnyToken

LEMMA TokensStep ==
  ASSUME Types, TokensInv, [Next]_vars
  PROVE  TokensInv'
<1> USE DEF tab, Show, ShowSame, KeepStored
<1>1. NoToken \in AnyToken /\ Token \subseteq AnyToken
  BY DEF AnyToken
<1>2. ASSUME NEW k \in AnyToken, k = NoToken \/ ~ Issued(k), Store(k),
             token' \in {token, k}, UNCHANGED rendered
      PROVE  TokensInv'
  BY <1>2, StoredOnce DEF TokensInv
<1>3. ASSUME UNCHANGED <<stored, spent, rendered>>, token' \in {token, stored}
      PROVE  TokensInv'
  BY <1>3 DEF TokensInv
<1>4. ASSUME UNCHANGED <<stored, spent, token>>, rendered'.token = token
      PROVE  TokensInv'
  BY <1>4 DEF TokensInv
<1>5. ASSUME NEW f \in flights, SessionFails(f) \/ LoggedOut(f) PROVE TokensInv'
  BY <1>1, <1>2, <1>5 DEF SessionFails, LoggedOut
<1>6. ASSUME NEW f \in flights, LoggedIn(f) PROVE TokensInv'
  BY <1>1, <1>2, <1>6 DEF LoggedIn
<1>7. ASSUME NEW f \in flights, MeAnswered(f) \/ Ended(f) PROVE TokensInv'
  BY <1>3, <1>7 DEF MeAnswered, Ended
<1>8. CASE Elsewhere
  BY <1>2, <1>8 DEF Elsewhere, AnyToken
<1>9. CASE Render
  BY <1>4, <1>9 DEF Render, Page
<1>10. CASE Reload
  <2>1. stored' = stored /\ spent' = spent /\ token' = stored /\ rendered'.token = stored
    BY <1>10 DEF Reload
  <2> QED BY <2>1 DEF TokensInv
<1>11. CASE Flush
  BY <1>3, <1>11 DEF Flush
<1>12. CASE Visible \/ Redirect \/ Continue \/ Login \/ Logout \/ Refresh \/ Act
  BY <1>3, <1>12 DEF Visible, Redirect, Continue, Login, Logout, Refresh, Act
<1>13. CASE UNCHANGED vars
  BY <1>3, <1>13 DEF vars
<1> QED
  BY <1>5, <1>6, <1>7, <1>8, <1>9, <1>10, <1>11, <1>12, <1>13 DEF Next, Hear

LEMMA Invariance == Spec => [](Types /\ TokensInv)
  BY InitTypes, TypesStep, InitTokens, TokensStep, PTL DEF Spec

-----------------------------------------------------------------------------
(* What is sent. *)

LEMMA SentStep ==
  ASSUME Types, TokensInv, [Next]_vars, NEW f \in flights' \ flights, f.live
  PROVE  f.token \notin spent
<1>1. FlightsInv /\ stored \in AnyToken /\ NoToken \in AnyToken
  BY DEF Types, TabTypes, AnyToken
<1>2. stored \notin spent /\ NoToken \notin spent
  BY NoTokenAssumption DEF Types, TabTypes, TokensInv
<1>3. ASSUME NEW kind \in Kinds, NEW k \in {stored, NoToken}, f = Flight(kind, k)
      PROVE  f.token \notin spent
  <2>1. k \in AnyToken
    BY <1>1
  <2>2. Flight(kind, k).token = k
    BY <1>1, <2>1, FlightType
  <2>3. f.token = k
    BY <1>3, <2>2
  <2> QED BY <1>2, <2>3
<1>4. \A c \in Cancelled : c.live => c \in flights
  BY <1>1, CancelledType
<1>5. CASE Flush
  BY <1>3, <1>4, <1>5 DEF Flush, HeaderToken, Kinds
<1>6. CASE Login \/ Logout \/ Refresh \/ Act
  BY <1>3, <1>6 DEF Login, Logout, Refresh, Act, Send, HeaderToken, Kinds
<1>7. ASSUME NEW g \in flights, Hear(g) PROVE FALSE
  BY <1>7 DEF Hear, MeAnswered, SessionFails, LoggedIn, LoggedOut, Ended, Land
<1>8. CASE Render \/ Visible \/ Redirect \/ Continue \/ Reload \/ Elsewhere \/ UNCHANGED vars
  BY <1>8 DEF Render, Visible, Redirect, Continue, Reload, Elsewhere, vars
<1> QED BY <1>5, <1>6, <1>7, <1>8 DEF Next

(* No request goes out with a token that has left the storage.                *)
THEOREM SpentStaySpent == Spec => SpentTokensAreNotSent
<1>1. ASSUME Types /\ TokensInv, [Next]_vars
      PROVE  [\A f \in flights' \ flights : f.live => f.token \notin spent]_vars
  BY <1>1, SentStep
<1> QED BY <1>1, Invariance, PTL DEF Spec, SpentTokensAreNotSent

-----------------------------------------------------------------------------
(* Who is shown. *)

LEMMA InitShown == Init => ShownUserExplained
  BY DEF Init, ShownUserExplained

LEMMA ShownStep ==
  ASSUME Types, TokensInv, ShownUserExplained, [Next]_vars
  PROVE  ShownUserExplained'
<1> USE DEF tab, Show, ShowSame
<1>1. ASSUME user' = Nobody PROVE ShownUserExplained'
  BY <1>1 DEF ShownUserExplained
<1>2. ASSUME UNCHANGED <<user, late, token, rendered, due>>,
             \A f \in flights : f.kind = "session" => f \in flights'
      PROVE  ShownUserExplained'
  BY <1>2 DEF ShownUserExplained, Asking
<1>3. ASSUME NEW f \in flights, MeAnswered(f) PROVE ShownUserExplained'
  <2>1. f.token \in Token
    BY <1>3 DEF MeAnswered, Types, FlightsInv
  <2>2. CASE f.token = token
    <3>1. token' = token /\ user' = Owner[token] /\ token # NoToken
      BY <1>3, <2>1, <2>2, NoTokenAssumption DEF MeAnswered
    <3> QED BY <3>1 DEF ShownUserExplained
  <2>3. CASE f.token # token
    BY <1>3, <2>3 DEF MeAnswered, ShownUserExplained
  <2> QED BY <2>2, <2>3
<1>4. ASSUME NEW f \in flights, SessionFails(f) \/ LoggedOut(f) PROVE ShownUserExplained'
  BY <1>1, <1>4 DEF SessionFails, LoggedOut
<1>5. ASSUME NEW f \in flights, LoggedIn(f) PROVE ShownUserExplained'
  BY <1>5, NoTokenAssumption DEF LoggedIn, ShownUserExplained
<1>6. ASSUME NEW f \in flights, Ended(f) PROVE ShownUserExplained'
  BY <1>2, <1>6 DEF Ended, Land
<1>7. CASE Render
  BY <1>7 DEF Render, Page, SessionEffect, ShownUserExplained, Asking
\* a token taken over is not the one of the last render
<1>8. ASSUME token' = stored, stored # NoToken, UNCHANGED <<user, late, rendered>>,
             Asking => Asking' \/ stored # token
      PROVE  ShownUserExplained'
  <2>1. CASE stored = token
    BY <1>8, <2>1 DEF ShownUserExplained
  <2>2. CASE stored # token
    <3>1. rendered'.token # token'
      BY <1>8, <2>2 DEF TokensInv
    <3> QED BY <1>8, <3>1 DEF ShownUserExplained, Asking
  <2> QED BY <2>1, <2>2
<1>9. CASE Flush
  <2>1. rendered' = rendered
    BY <1>9 DEF Flush
  <2>2. CASE "session" \in due /\ SignedOut
    BY <1>1, <1>9, <2>2 DEF Flush
  <2>3. CASE "session" \in due /\ ~ SignedOut
    <3>1. FlightsInv /\ stored \in AnyToken /\ "session" \in Kinds
      BY DEF Types, TabTypes, Kinds
    <3>2. \E f \in flights' : f.kind = "session" /\ f.live
      BY <1>9, <2>3, <3>1, FlightType DEF Flush, HeaderToken
    <3>3. UNCHANGED <<user, late>> /\ token' \in {token, stored} /\ stored # NoToken
      BY <1>9, <2>3 DEF Flush, SignedOut
    <3>4. token' # NoToken => Asking'
      BY <3>2 DEF Asking
    <3> QED BY <3>3, <3>4 DEF ShownUserExplained, Asking
  <2>4. CASE "session" \notin due
    <3>1. due # {} /\ flights' = flights
      BY <1>9, <2>4 DEF Flush
    <3>2. CASE "location" \in due /\ stored = NoToken
      BY <1>1, <1>9, <3>2 DEF Flush
    <3>3. CASE "location" \in due /\ stored # NoToken
      <4>1. token' = stored /\ UNCHANGED <<user, late>>
        BY <1>9, <2>4, <3>3 DEF Flush
      <4>2. Asking => Asking' \/ stored # token
        BY <2>1, <2>4, <3>1, <4>1 DEF Asking
      <4> QED BY <1>8, <2>1, <3>3, <4>1, <4>2
    <3>4. CASE "location" \notin due
      BY <2>4, <3>1, <3>4 DEF Types, TabTypes
    <3> QED BY <3>2, <3>3, <3>4
  <2> QED BY <2>2, <2>3, <2>4
<1>10. CASE Visible
  <2>1. CASE stored = NoToken
    BY <1>1, <1>10, <2>1 DEF Visible
  <2>2. CASE stored # NoToken
    <3>1. token' = stored /\ UNCHANGED <<user, late, rendered, due, flights>>
      BY <1>10, <2>2 DEF Visible
    <3>2. Asking => Asking' \/ stored # token
      BY <3>1 DEF Asking
    <3> QED BY <1>8, <2>2, <3>1, <3>2
  <2> QED BY <2>1, <2>2
<1>11. CASE Redirect \/ Continue \/ Login \/ Logout \/ Act \/ Elsewhere
  BY <1>2, <1>11 DEF Redirect, Continue, Login, Logout, Act, Elsewhere, Send
<1>12. CASE Refresh
  BY <1>1, <1>2, <1>12 DEF Refresh, Send
<1>13. CASE Reload
  BY <1>1, <1>13 DEF Reload
<1>14. CASE UNCHANGED vars
  BY <1>2, <1>14 DEF vars
<1> QED
  BY <1>3, <1>4, <1>5, <1>6, <1>7, <1>9, <1>10, <1>11, <1>12, <1>13, <1>14 DEF Next, Hear

(* Whoever the tab shows is accounted for.                                    *)
THEOREM ShownIsExplained == Spec => []ShownUserExplained
  BY InitShown, ShownStep, Invariance, PTL DEF Spec

-----------------------------------------------------------------------------
(* What LoadingEnds rests on besides fairness.                                *)

(* The flag of the first load is up only while the session effect has still   *)
(* to run, or a request whose effect was not cleaned up is under way.         *)
LoadingIsAwaited == loading => "session" \in due \/ \E f \in flights : EndsLoading(f)

(* Effects that are cleaned up and run again leave one such request at most.  *)
OneLoads == \A f, g \in flights : EndsLoading(f) /\ EndsLoading(g) => f = g

LEMMA InitLoading == Init => LoadingIsAwaited /\ OneLoads
  BY DEF Init, LoadingIsAwaited, OneLoads, Mounted

\* a request the user makes does not end the first load
LEMMA UserFlights ==
  ASSUME FlightsInv, NEW kind \in {"act", "logout", "login", "refresh"}, NEW k \in AnyToken
  PROVE  ~ EndsLoading(Flight(kind, k))
  BY FlightType DEF EndsLoading, Kinds

LEMMA CancelledLoads ==
  ASSUME FlightsInv, NEW c \in Cancelled
  PROVE  ~ EndsLoading(c)
<1>1. PICK f \in flights : c = [f EXCEPT !.live = f.live /\ f.kind # "session"]
  BY DEF Cancelled
<1>2. f \in AFlight
  BY DEF FlightsInv
<1>3. c.kind = f.kind /\ (c.live <=> f.live /\ f.kind # "session")
  BY <1>1, <1>2 DEF AFlight
<1> QED BY <1>3 DEF EndsLoading

LEMMA LoadingStep ==
  ASSUME Types, LoadingIsAwaited, OneLoads, [Next]_vars
  PROVE  LoadingIsAwaited' /\ OneLoads'
<1> USE DEF tab, Show, ShowSame
<1>1. FlightsInv /\ stored \in AnyToken /\ NoToken \in AnyToken
  BY DEF Types, TabTypes, AnyToken
\* steps that keep the flag, and the requests that end it
<1>2. ASSUME loading' => loading, UNCHANGED due,
             \A f \in flights' : EndsLoading(f) => f \in flights,
             loading' => \A f \in flights : EndsLoading(f) => f \in flights'
      PROVE  LoadingIsAwaited' /\ OneLoads'
  BY <1>2 DEF LoadingIsAwaited, OneLoads, EndsLoading
<1>3. ASSUME NEW f \in flights, MeAnswered(f) \/ SessionFails(f)
      PROVE  LoadingIsAwaited' /\ OneLoads'
  <2>1. flights' = flights \ {f} /\ UNCHANGED due /\ (loading' => loading /\ ~ EndsLoading(f))
    BY <1>3 DEF MeAnswered, SessionFails, Land
  <2> QED BY <1>2, <2>1
<1>4. ASSUME NEW f \in flights, LoggedIn(f) \/ LoggedOut(f) \/ Ended(f)
      PROVE  LoadingIsAwaited' /\ OneLoads'
  <2>1. flights' = flights \ {f} /\ UNCHANGED <<due, loading>> /\ ~ EndsLoading(f)
    BY <1>4 DEF LoggedIn, LoggedOut, Ended, Land, EndsLoading
  <2> QED BY <1>2, <2>1
<1>5. CASE Flush
  <2>1. CASE "session" \notin due
    <3>1. flights' = flights /\ due' = {} /\ (loading' => loading)
      BY <1>5, <2>1 DEF Flush
    <3> QED BY <2>1, <3>1 DEF LoadingIsAwaited, OneLoads, EndsLoading
  <2>2. CASE "session" \in due /\ SignedOut
    <3>1. flights' = Cancelled /\ ~ loading'
      BY <1>5, <2>2 DEF Flush, SignedOut, NothingToAwait
    <3> QED BY <1>1, <3>1, CancelledLoads DEF LoadingIsAwaited, OneLoads, EndsLoading
  <2>3. CASE "session" \in due /\ ~ SignedOut
    <3> DEFINE new == Flight("session", stored)
    <3>1. EndsLoading(new)
      BY <1>1, FlightType DEF Kinds, EndsLoading
    <3> HIDE DEF new
    <3>2. flights' = Cancelled \cup {new}
      BY <1>5, <2>3 DEF Flush, HeaderToken, new
    <3>3. \A g \in flights' : EndsLoading(g) <=> g = new
      BY <1>1, <3>1, <3>2, CancelledLoads
    <3> QED BY <3>2, <3>3 DEF LoadingIsAwaited, OneLoads, EndsLoading
  <2> QED BY <2>1, <2>2, <2>3
<1>6. ASSUME NEW kind \in {"act", "logout", "login", "refresh"}, NEW k \in AnyToken,
             flights' = flights \cup {Flight(kind, k)}, UNCHANGED <<due, loading>>
      PROVE  LoadingIsAwaited' /\ OneLoads'
  <2> DEFINE new == Flight(kind, k)
  <2>1. ~ EndsLoading(new)
    BY <1>1, UserFlights
  <2> HIDE DEF new
  <2>2. flights' = flights \cup {new}
    BY <1>6 DEF new
  <2> QED BY <1>2, <1>6, <2>1, <2>2
<1>7. CASE Login \/ Logout \/ Act
  BY <1>1, <1>6, <1>7 DEF Login, Logout, Act, Send, HeaderToken
<1>8. CASE Refresh
  BY <1>1, <1>2, <1>6, <1>8 DEF Refresh, Send, HeaderToken
<1>9. CASE Reload
  <2>1. flights' = {} /\ "session" \in due'
    BY <1>9 DEF Reload, Mounted
  <2> QED BY <2>1 DEF LoadingIsAwaited, OneLoads
<1>10. CASE Render
  <2>1. flights' = flights /\ loading' = loading /\ due = {}
    BY <1>10 DEF Render
  <2> QED BY <2>1 DEF LoadingIsAwaited, OneLoads, EndsLoading
<1>11. CASE Visible
  BY <1>2, <1>11 DEF Visible
<1>12. CASE Redirect \/ Continue \/ Elsewhere \/ UNCHANGED vars
  BY <1>2, <1>12 DEF Redirect, Continue, Elsewhere, vars
<1> QED
  BY <1>3, <1>4, <1>5, <1>7, <1>8, <1>9, <1>10, <1>11, <1>12 DEF Next, Hear

(* A tab that says "Loading" has the effect to run, or the one request under  *)
(* way, that ends it: neither a change of token, an answer that comes late,   *)
(* nor a reload can leave the flag up with nothing to take it down.           *)
THEOREM LoadingHasAnEnd == Spec => [](LoadingIsAwaited /\ OneLoads)
<1>1. Types /\ LoadingIsAwaited /\ OneLoads /\ [Next]_vars
        => (Types /\ LoadingIsAwaited /\ OneLoads)'
  BY TypesStep, LoadingStep
<1> QED BY <1>1, InitTypes, InitLoading, PTL DEF Spec
===============================================================================
