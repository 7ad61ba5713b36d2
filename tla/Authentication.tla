--------------------------- MODULE Authentication ---------------------------
(***************************************************************************)
(* Logins and sessions of internal/auth/auth.go: a login leaves a state in *)
(* a map under a mutex, the callback that names it takes it out, has the   *)
(* code exchanged and the identity token verified, and seals a session     *)
(* into a cookie.  Callbacks run concurrently and the clock goes on        *)
(* between their steps.  Initial states and steps; PublicAccess composes   *)
(* them.  What Authorize makes of a session is in RequestPath.             *)
(*                                                                         *)
(* The provider and the cryptography are external: an exchange fails or    *)
(* brings any claims, and a cookie opens if the server sealed it.          *)
(***************************************************************************)
EXTENDS Naturals

CONSTANTS
    Logins,     \* the random tokens of logins; each is made once
    Callbacks,  \* goroutines that handle callbacks
    NoLogin,    \* a nonce of no login
    LoginTime,  \* how long a login may take: ten minutes
    MaxTime     \* bound on the clock

ASSUME LoginAssumption ==
    /\ NoLogin \notin Logins
    /\ {LoginTime, MaxTime} \subseteq Nat \ {0}

VARIABLES
    now,        \* m.clock
    started,    \* when each login was made; 0 if it was not
    states,     \* m.states: for every login when it expires, or 0 if it is not in the map
    takenBy,   \* history: how many callbacks found each login
    at,         \* where a callback is
    login,      \* the login it found; NoLogin if none
    claims,     \* the claims of its identity token
    cookie      \* the session the browser has: its login and claims; NoSession

authVars == <<now, started, states, takenBy, at, login, claims, cookie>>

Times == 0 .. MaxTime
Expiries == 0 .. MaxTime + LoginTime
Claims == [nonce: Logins \cup {NoLogin}, exp: 1 .. MaxTime + 1]
NoClaims == [nonce |-> NoLogin, exp |-> 1]
NoSession == [login |-> NoLogin, claims |-> NoClaims, sealed |-> 0]
Rests == {"idle", "refused", "signedIn"}

AuthInit ==
    /\ now = 1
    /\ started = [l \in Logins |-> 0]
    /\ states = [l \in Logins |-> 0]
    /\ takenBy = [l \in Logins |-> 0]
    /\ at = [c \in Callbacks |-> "idle"]
    /\ login = [c \in Callbacks |-> NoLogin]
    /\ claims = [c \in Callbacks |-> NoClaims]
    /\ cookie = NoSession

-----------------------------------------------------------------------------
(* login.                                                                   *)

Login(l) ==
    /\ started[l] = 0
    /\ started' = [started EXCEPT ![l] = now]
    /\ states' = [states EXCEPT ![l] = now + LoginTime]
    /\ UNCHANGED <<now, takenBy, at, login, claims, cookie>>

-----------------------------------------------------------------------------
(* callback.                                                                *)

\* Mutant: the state is left for the end of the callback.
StatesKept(l) == states

\* Lookup and delete are one critical section.
StatesAfterTaking(l) == [states EXCEPT ![l] = 0]

\* A callback that names l.  It is refused unless l is in the map and not expired; a
\* login that is found is taken out in any case.
TakeLogin(c, l) ==
    /\ at[c] \in Rests
    /\ states' = StatesAfterTaking(l)
    /\ takenBy' = [takenBy EXCEPT ![l] = IF states[l] = 0 THEN @ ELSE @ + 1]
    /\ IF states[l] # 0 /\ states[l] >= now
       THEN at' = [at EXCEPT ![c] = "exchange"] /\ login' = [login EXCEPT ![c] = l]
       ELSE at' = [at EXCEPT ![c] = "refused"] /\ UNCHANGED login
    /\ UNCHANGED <<now, started, claims, cookie>>

Done(c, how) ==
    /\ at' = [at EXCEPT ![c] = how]
    /\ login' = [login EXCEPT ![c] = NoLogin]
    /\ claims' = [claims EXCEPT ![c] = NoClaims]

\* The provider gives an identity token for the code, ...
Exchange(c) ==
    /\ at[c] = "exchange"
    /\ \E given \in Claims : claims' = [claims EXCEPT ![c] = given]
    /\ at' = [at EXCEPT ![c] = "verify"]
    /\ UNCHANGED <<now, started, states, takenBy, login, cookie>>

\* ... or it does not, or its answer has no such token.
ExchangeFails(c) ==
    /\ at[c] = "exchange"
    /\ Done(c, "refused")
    /\ UNCHANGED <<now, started, states, takenBy, cookie>>

ValidClaims(cl) == cl.exp > now

\* Mutant: a token for another login will do.
AnyNonce(c) == TRUE

ValidNonce(c) == claims[c].nonce = login[c]

\* The token is verified, which takes as long as the provider's keys take to arrive,
\* and its claims are looked at then.  The session goes to the browser.
SignIn(c) ==
    /\ at[c] = "verify"
    /\ ValidClaims(claims[c]) /\ ValidNonce(c)
    /\ cookie' = [login |-> login[c], claims |-> claims[c], sealed |-> now]
    /\ Done(c, "signedIn")
    /\ UNCHANGED <<now, started, states, takenBy>>

VerifyFails(c) ==
    /\ at[c] = "verify"
    /\ Done(c, "refused")
    /\ UNCHANGED <<now, started, states, takenBy, cookie>>

\* logout: the browser forgets its session.
Logout ==
    /\ cookie' = NoSession
    /\ UNCHANGED <<now, started, states, takenBy, at, login, claims>>

Tick ==
    /\ now < MaxTime
    /\ now' = now + 1
    /\ UNCHANGED <<started, states, takenBy, at, login, claims, cookie>>

Callback(c) ==
    \/ \E l \in Logins : TakeLogin(c, l)
    \/ Exchange(c) \/ ExchangeFails(c) \/ SignIn(c) \/ VerifyFails(c)

AuthNext ==
    \/ \E l \in Logins : Login(l)
    \/ \E c \in Callbacks : Callback(c)
    \/ Logout \/ Tick

-----------------------------------------------------------------------------
AuthTypeOK ==
    /\ now \in Times
    /\ started \in [Logins -> Times]
    /\ states \in [Logins -> Expiries]
    /\ takenBy \in [Logins -> Nat]
    /\ at \in [Callbacks -> Rests \cup {"exchange", "verify"}]
    /\ login \in [Callbacks -> Logins \cup {NoLogin}]
    /\ claims \in [Callbacks -> Claims]
    /\ cookie \in [login: Logins \cup {NoLogin}, claims: Claims, sealed: Times]

\* However callbacks overlap or are repeated, a login is handed to one of them at most,
\* and it waits in the map until that one comes: nobody else's callback, nor the
\* expiry, takes it away.
LoginTakenOnce ==
    \A l \in Logins :
        /\ takenBy[l] <= 1
        /\ started[l] # 0 => (states[l] # 0 <=> takenBy[l] = 0)

\* Two callbacks under way never work for the same login, and the session in the browser
\* is that of a login that is over, whose identity token was made for this login and
\* had not expired when the session was sealed.
SessionBelongsToLogin ==
    /\ \A c, d \in Callbacks : login[c] = login[d] /\ login[c] # NoLogin => c = d
    /\ cookie # NoSession =>
          /\ cookie.claims.nonce = cookie.login /\ cookie.claims.exp > cookie.sealed
          /\ takenBy[cookie.login] = 1
          /\ \A c \in Callbacks : login[c] # cookie.login
=============================================================================
