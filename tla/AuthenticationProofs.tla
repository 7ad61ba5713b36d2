------------------------ MODULE AuthenticationProofs ------------------------
(* An inductive invariant of Authentication, for any number of logins and of    *)
(* callbacks.  PublicAccessProofs makes theorems of PublicAccess of it.         *)
EXTENDS Authentication, TLAPS

\* A login is in the map from when it is made until one callback finds it.
LoginInv(l) ==
    /\ started[l] = 0 => states[l] = 0 /\ takenBy[l] = 0
    /\ takenBy[l] <= 1
    /\ started[l] # 0 => (states[l] # 0 <=> takenBy[l] = 0)

\* A callback on its way has a login of its own, which was taken out.
CallbackInv(c) ==
    /\ at[c] \in Rests => login[c] = NoLogin
    /\ at[c] \notin Rests => login[c] \in Logins /\ takenBy[login[c]] = 1
    /\ \A d \in Callbacks : login[c] = login[d] /\ login[c] # NoLogin => c = d

\* The session is that of a login nobody works for any more, made of a token for it.
CookieInv ==
    cookie # NoSession =>
        /\ cookie.login \in Logins
        /\ cookie.claims.nonce = cookie.login /\ cookie.claims.exp > cookie.sealed
        /\ takenBy[cookie.login] = 1
        /\ \A c \in Callbacks : login[c] # cookie.login

AuthInv ==
    /\ AuthTypeOK /\ now # 0
    /\ \A l \in Logins : LoginInv(l)
    /\ \A c \in Callbacks : CallbackInv(c)
    /\ CookieInv

LEMMA InitAuth == AuthInit => AuthInv
<1> SUFFICES ASSUME AuthInit PROVE AuthInv
  OBVIOUS
<1>1. AuthTypeOK
  <2>1. NoClaims \in Claims
    BY LoginAssumption DEF NoClaims, Claims
  <2> QED
    BY <2>1, LoginAssumption DEF AuthInit, AuthTypeOK, Times, Expiries, Rests, NoSession
<1> QED
  BY <1>1, LoginAssumption DEF AuthInit, AuthInv, LoginInv, CallbackInv, CookieInv, Rests

LEMMA LoginMade ==
    ASSUME AuthInv, NEW l \in Logins, Login(l)
    PROVE  AuthInv'
<1> USE DEF AuthInv
<1>1. UNCHANGED <<now, takenBy, at, login, claims, cookie>>
  BY DEF Login
<1>2. now \in 0 .. MaxTime /\ now # 0 /\ now + LoginTime \in 0 .. MaxTime + LoginTime /\ now + LoginTime # 0
  BY LoginAssumption DEF AuthTypeOK, Times
<1>3. AuthTypeOK'
  BY <1>1, <1>2 DEF Login, AuthTypeOK, Times, Expiries
<1>4. \A k \in Logins : LoginInv(k)'
  BY <1>1, <1>2 DEF Login, LoginInv, AuthTypeOK
<1>5. (\A c \in Callbacks : CallbackInv(c)') /\ CookieInv'
  BY <1>1 DEF CallbackInv, CookieInv
<1> QED
  BY <1>1, <1>3, <1>4, <1>5

LEMMA LoginTaken ==
    ASSUME AuthInv, NEW c \in Callbacks, NEW l \in Logins, TakeLogin(c, l)
    PROVE  AuthInv'
<1> USE DEF AuthInv
<1>1. UNCHANGED <<now, started, claims, cookie>> /\ at[c] \in Rests /\ login[c] = NoLogin
  BY DEF TakeLogin, CallbackInv
<1>2. PICK t \in Nat : /\ takenBy' = [takenBy EXCEPT ![l] = t]
                       /\ t = IF states[l] = 0 THEN takenBy[l] ELSE takenBy[l] + 1
  <2>1. takenBy[l] \in Nat /\ takenBy[l] + 1 \in Nat
    BY DEF AuthTypeOK
  <2> QED
    BY <2>1 DEF TakeLogin
<1>3. states' = [states EXCEPT ![l] = 0]
  BY DEF TakeLogin, StatesAfterTaking
<1>4. states[l] # 0 => takenBy[l] = 0 /\ started[l] # 0
  BY DEF LoginInv
<1>5. AuthTypeOK'
  BY <1>1, <1>2, <1>3, LoginAssumption DEF TakeLogin, AuthTypeOK, Expiries, Rests
<1>6. \A k \in Logins : LoginInv(k)'
  BY <1>1, <1>2, <1>3, <1>4 DEF LoginInv, AuthTypeOK
<1>7. \A k \in Logins : takenBy[k] = 1 => takenBy'[k] = 1
  BY <1>2, <1>4 DEF AuthTypeOK
<1>8. CASE states[l] # 0 /\ states[l] >= now
  <2>1. at' = [at EXCEPT ![c] = "exchange"] /\ login' = [login EXCEPT ![c] = l] /\ takenBy'[l] = 1
    BY <1>2, <1>4, <1>8 DEF TakeLogin, AuthTypeOK
  <2>2. \A d \in Callbacks : login[d] # l
    BY <1>4, <1>8, LoginAssumption DEF CallbackInv
  <2>3. \A d \in Callbacks : CallbackInv(d)'
    BY <1>7, <2>1, <2>2, LoginAssumption DEF CallbackInv, AuthTypeOK, Rests
  <2>4. CookieInv'
    BY <1>1, <1>4, <1>7, <1>8, <2>1 DEF CookieInv, AuthTypeOK
  <2> QED
    BY <1>1, <1>5, <1>6, <2>3, <2>4
<1>9. CASE ~(states[l] # 0 /\ states[l] >= now)
  <2>1. at' = [at EXCEPT ![c] = "refused"] /\ UNCHANGED login
    BY <1>9 DEF TakeLogin
  <2>2. \A d \in Callbacks : CallbackInv(d)'
    BY <1>1, <1>7, <2>1 DEF CallbackInv, AuthTypeOK, Rests
  <2>3. CookieInv'
    BY <1>1, <1>7, <2>1 DEF CookieInv, AuthTypeOK
  <2> QED
    BY <1>1, <1>5, <1>6, <2>2, <2>3
<1> QED
  BY <1>8, <1>9

\* The end of a callback: its login is nobody's any more.
LEMMA CallbackOver ==
    ASSUME AuthInv, NEW c \in Callbacks, NEW how \in Rests, Done(c, how), UNCHANGED <<now, started, states, takenBy>>,
           cookie' \in [login: Logins \cup {NoLogin}, claims: Claims, sealed: Times],
           \/ UNCHANGED cookie
           \/ /\ cookie'.login = login[c] /\ at[c] \notin Rests
              /\ cookie'.claims.nonce = cookie'.login /\ cookie'.claims.exp > cookie'.sealed
    PROVE  AuthInv'
<1> USE DEF AuthInv
<1>0. NoClaims \in Claims
  BY LoginAssumption DEF NoClaims, Claims
<1>1. AuthTypeOK'
  BY <1>0 DEF Done, AuthTypeOK, Rests
<1>2. login'[c] = NoLogin /\ at'[c] = how /\ \A d \in Callbacks \ {c} : login'[d] = login[d] /\ at'[d] = at[d]
  BY DEF Done, AuthTypeOK
<1>3. \A d \in Callbacks : CallbackInv(d)'
  BY <1>2 DEF CallbackInv
<1>4. CookieInv'
  <2>1. CASE UNCHANGED cookie
    BY <1>2, <2>1, LoginAssumption DEF CookieInv
  <2>2. CASE at[c] \notin Rests /\ cookie'.login = login[c]
    BY <1>2, <2>2, LoginAssumption DEF CookieInv, CallbackInv
  <2> QED
    BY <2>1, <2>2
<1> QED
  BY <1>1, <1>3, <1>4 DEF LoginInv

LEMMA StepAuth == AuthInv /\ [AuthNext]_authVars => AuthInv'
<1> SUFFICES ASSUME AuthInv, [AuthNext]_authVars PROVE AuthInv'
  OBVIOUS
<1> USE DEF AuthInv
<1>1. CASE UNCHANGED authVars
  BY <1>1 DEF authVars, AuthTypeOK, LoginInv, CallbackInv, CookieInv
<1>2. ASSUME NEW c \in Callbacks, Exchange(c) PROVE AuthInv'
  <2>1. AuthTypeOK'
    BY <1>2 DEF Exchange, AuthTypeOK
  <2>2. \A d \in Callbacks : CallbackInv(d)'
    BY <1>2 DEF Exchange, CallbackInv, AuthTypeOK, Rests
  <2> QED
    BY <1>2, <2>1, <2>2 DEF Exchange, LoginInv, CookieInv
<1>3. ASSUME NEW c \in Callbacks, ExchangeFails(c) \/ VerifyFails(c) PROVE AuthInv'
  BY <1>3, CallbackOver DEF ExchangeFails, VerifyFails, AuthTypeOK, Rests
<1>4. ASSUME NEW c \in Callbacks, SignIn(c) PROVE AuthInv'
  <2>1. /\ cookie' = [login |-> login[c], claims |-> claims[c], sealed |-> now]
        /\ claims[c].exp > now /\ claims[c].nonce = login[c]
    BY <1>4 DEF SignIn, ValidClaims, ValidNonce
  <2>2. cookie' \in [login: Logins \cup {NoLogin}, claims: Claims, sealed: Times]
    BY <2>1 DEF AuthTypeOK
  <2>3. Done(c, "signedIn") /\ UNCHANGED <<now, started, states, takenBy>> /\ at[c] \notin Rests
    BY <1>4 DEF SignIn, Rests
  <2> QED
    BY <2>1, <2>2, <2>3, CallbackOver DEF Rests
<1>5. CASE Logout \/ Tick
  <2>1. UNCHANGED <<started, states, takenBy, at, login, claims>>
    BY <1>5 DEF Logout, Tick
  <2>2. now' \in Times /\ now' # 0
    BY <1>5, LoginAssumption DEF Logout, Tick, AuthTypeOK, Times
  <2>3. cookie' \in {cookie, NoSession}
    BY <1>5 DEF Logout, Tick
  <2>4. NoSession \in [login: Logins \cup {NoLogin}, claims: Claims, sealed: Times]
    BY LoginAssumption DEF NoSession, NoClaims, Claims, Times
  <2>5. AuthTypeOK'
    BY <2>1, <2>2, <2>3, <2>4 DEF AuthTypeOK
  <2> QED
    BY <2>1, <2>2, <2>3, <2>5 DEF LoginInv, CallbackInv, CookieInv
<1> QED
  BY <1>1, <1>2, <1>3, <1>4, <1>5, LoginMade, LoginTaken DEF AuthNext, Callback

LEMMA LoginsOfInv == AuthInv => LoginTakenOnce /\ SessionBelongsToLogin
  BY DEF AuthInv, LoginInv, CallbackInv, CookieInv, LoginTakenOnce, SessionBelongsToLogin
=============================================================================
