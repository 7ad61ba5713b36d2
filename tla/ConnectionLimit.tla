--------------------------- MODULE ConnectionLimit ---------------------------
(***************************************************************************)
(* limitedListener and limitedConn of internal/dataplane/server.go, driven *)
(* by the public http.Server: its Serve loop accepts, every connection has *)
(* a goroutine that closes it when it is done, and Shutdown closes idle    *)
(* connections on its own, so that Close of one connection may run twice   *)
(* at the same time.  net/http is external and modelled as far as it calls *)
(* this code.                                                              *)
(***************************************************************************)
EXTENDS Naturals, FiniteSets

CONSTANTS
    Connections,    \* connections that can be open at the same time, and their goroutines
    MaxConnections, \* limits.max_connections
    Nobody          \* Shutdown is not closing a connection

ASSUME ConnectionAssumption ==
    /\ IsFiniteSet(Connections)
    /\ MaxConnections \in Nat \ {0}
    /\ Nobody \notin Connections

VARIABLES
    listening,  \* the listener is open
    tokens,     \* len(limitedListener.slots)
    acceptor,   \* where Serve's call of Accept is
    release,    \* limitedConn.release is not nil
    server,     \* where the goroutine of each connection is
    sweeping,   \* the connection Shutdown is closing
    sweeper,    \* where that Close is
    swept       \* connections Shutdown has closed, and the server no longer tracks

connVars == <<listening, tokens, acceptor, release, server, sweeping, sweeper, swept>>

ConnInit ==
    /\ listening = TRUE
    /\ tokens = 0
    /\ acceptor = "take"
    /\ release = [c \in Connections |-> FALSE]
    /\ server = [c \in Connections |-> "none"]
    /\ sweeping = Nobody
    /\ sweeper = "off"
    /\ swept = {}

-----------------------------------------------------------------------------
(* Accept.                                                                  *)

\* Mutant: the channel has room for one more.
OneTooMany == tokens <= MaxConnections

TokenFree == tokens < MaxConnections

\* Accept puts its token first, and waits for one when all are taken.
TakeSlot ==
    /\ acceptor = "take" /\ TokenFree
    /\ tokens' = tokens + 1
    /\ acceptor' = "accept"
    /\ UNCHANGED <<listening, release, server, sweeping, sweeper, swept>>

\* The listener has a connection; Serve starts a goroutine for it.
AcceptConnection(c) ==
    /\ acceptor = "accept" /\ listening
    /\ server[c] = "none"
    /\ server' = [server EXCEPT ![c] = "open"]
    /\ release' = [release EXCEPT ![c] = TRUE]
    /\ acceptor' = "take"
    /\ UNCHANGED <<listening, tokens, sweeping, sweeper, swept>>

\* Mutant: the token stays when Accept fails.
TokenKept == tokens

TokensAfterError == tokens - 1

\* The listener fails or is closed: the token is taken back.  Serve returns
\* ErrServerClosed when the server shuts down, retries a temporary error and
\* returns any other.
AcceptFails(next) ==
    /\ acceptor = "accept" /\ tokens > 0
    /\ tokens' = TokensAfterError
    /\ next \in (IF listening THEN {"take", "failed"} ELSE {"closed"})
    /\ acceptor' = next
    /\ UNCHANGED <<listening, release, server, sweeping, sweeper, swept>>

\* Shutdown closes the listener.
CloseListener ==
    /\ listening
    /\ listening' = FALSE
    /\ UNCHANGED <<tokens, acceptor, release, server, sweeping, sweeper, swept>>

-----------------------------------------------------------------------------
(* limitedConn.Close, in the goroutine of the connection and in Shutdown.   *)

\* The goroutine is done with its connection (the client left, the idle timeout
\* expired, or Shutdown closed it) and closes it: the inner Close, then the test of
\* the release function.
CloseOwn(c) ==
    /\ server[c] = "open"
    /\ server' = [server EXCEPT ![c] = IF release[c] THEN "release" ELSE "none"]
    /\ UNCHANGED <<listening, tokens, acceptor, release, sweeping, sweeper, swept>>

\* The release function takes a token out, waiting for one if need be; then it is
\* forgotten.
ReleaseOwn(c) ==
    /\ server[c] = "release" /\ tokens > 0
    /\ tokens' = tokens - 1
    /\ release' = [release EXCEPT ![c] = FALSE]
    /\ server' = [server EXCEPT ![c] = "none"]
    /\ UNCHANGED <<listening, acceptor, sweeping, sweeper, swept>>

\* Shutdown, which has closed the listener, closes an idle connection.
SweepIdle(c) ==
    /\ ~listening /\ sweeping = Nobody
    /\ server[c] # "none" /\ c \notin swept
    /\ swept' = swept \cup {c}
    /\ IF release[c]
       THEN sweeping' = c /\ sweeper' = "release"
       ELSE UNCHANGED <<sweeping, sweeper>>
    /\ UNCHANGED <<listening, tokens, acceptor, release, server>>

ReleaseSwept ==
    /\ sweeper = "release" /\ tokens > 0
    /\ tokens' = tokens - 1
    /\ release' = [release EXCEPT ![sweeping] = FALSE]
    /\ sweeping' = Nobody /\ sweeper' = "off"
    /\ UNCHANGED <<listening, acceptor, server, swept>>

-----------------------------------------------------------------------------
(* Properties.                                                              *)

ConnTypeOK ==
    /\ listening \in BOOLEAN
    /\ tokens \in 0 .. MaxConnections
    /\ acceptor \in {"take", "accept", "failed", "closed"}
    /\ release \in [Connections -> BOOLEAN]
    /\ server \in [Connections -> {"none", "open", "release"}]
    /\ sweeping \in Connections \cup {Nobody}
    /\ sweeper \in {"off", "release"}
    /\ swept \subseteq Connections

\* Those who took a token and have not given it back.
Holding == {c \in Connections : release[c]}
Waiting == IF acceptor = "accept" THEN 1 ELSE 0

\* Connections that Shutdown has closed and whose goroutine is done with them.
ClosedByBoth ==
    {c \in swept : ~release[c] /\ server[c] = "none" /\ sweeping # c}

\* A token is taken before the connection exists, given back by whoever closes it,
\* and taken back when Accept fails.  No token is left behind: each stands for an unclosed
\* connection or for the Accept under way.  Tokens are missing only when Shutdown and a
\* goroutine both found the release function, at most one for each connection both of
\* them closed; and there are never more connections than max_connections.
SlotsMatchConnections ==
    /\ tokens <= Cardinality(Holding) + Waiting
    /\ Cardinality(Holding) + Waiting <= tokens + Cardinality(ClosedByBoth)
    /\ Cardinality(Holding) <= MaxConnections
=============================================================================
