--------------------------------- MODULE Login ---------------------------------
(***************************************************************************)
(* A browser logs in at the frontend server and out again, in several tabs  *)
(* that share two cookies.  /login keeps the transaction of the login in one  *)
(* cookie; the callback redeems the code at Auth0, asks the supervisor for  *)
(* the metadata, registers the token with the agent service, stores the      *)
(* session in a Map of the process and names it in the other cookie.         *)
(*                                                                          *)
(* Every callback makes a session id, so that a session is its callback.     *)
(***************************************************************************)
EXTENDS Supervisor

CONSTANTS
    Logins,     \* the requests of /login, one Auth0Transaction each
    MaxLogouts, \* bound on requests of /logout
    MaxReloads  \* bound on restarts of the frontend server

ASSUME LoginAssumption == MaxLogouts \in Nat /\ MaxReloads \in Nat /\ None \notin Logins

VARIABLES
    fe,         \* fe[c]: where callback c stands
    login,      \* login[c]: the login whose code and state its URL has
    sessions,   \* the Map of auth0-session-store
    registered, \* the sessions whose token the agent service was given
    begun,      \* the logins that have begun
    redeemed,   \* the codes that Auth0 has exchanged
    txn,        \* the browser's transaction cookie
    cookie,     \* the browser's session cookie
    replies,    \* answers on their way to the browser
    out,        \* history variable: the sessions that a logout named
    lost,       \* history variable: the sessions that ended with a process
    logouts, reloads

serverVars == <<fe, login, sessions, registered, redeemed>>
browserVars == <<begun, txn, cookie, replies, out, lost, logouts>>
loginVars == <<serverVars, browserVars, reloads>>

CallbackStages == {"new", "exchange", "metadata", "register", "store", "done", "gone"}
Awaiting == {"exchange", "metadata", "register", "store"}

LoginTypeOK ==
    /\ TypeOK
    /\ fe \in [Sessions -> CallbackStages]
    /\ login \in [Sessions -> Logins \cup {None}]
    /\ \A c \in Sessions : fe[c] = "new" <=> login[c] = None
    /\ sessions \subseteq registered /\ out \cup lost \subseteq registered
    /\ registered \subseteq {c \in Sessions : sup[c] = "ok"}
    /\ begun \subseteq Logins /\ redeemed \subseteq begun
    /\ txn \in begun \cup {None} /\ cookie \in registered \cup {None}
    /\ replies \subseteq [kind : {"session", "error", "logout"}, session : Sessions \cup {None}]
    /\ logouts \in 0..MaxLogouts /\ reloads \in 0..MaxReloads

LoginInit ==
    /\ Init
    /\ fe = [c \in Sessions |-> "new"] /\ login = [c \in Sessions |-> None]
    /\ sessions = {} /\ registered = {} /\ out = {} /\ lost = {}
    /\ begun = {} /\ redeemed = {}
    /\ txn = None /\ cookie = None /\ replies = {}
    /\ logouts = 0 /\ reloads = 0

------------------------------------------------------------------------------
(* The browser.                                                             *)
Reply(kind, c) == replies' = replies \cup {[kind |-> kind, session |-> c]}

\* The answer of /login replaces the transaction of another tab.
Begin(n) ==
    /\ n \notin begun
    /\ begun' = begun \cup {n}
    /\ txn' = n
    /\ UNCHANGED <<allVars, serverVars, cookie, replies, out, lost, logouts, reloads>>

\* Every answer clears the transaction; that of a login sets the session.
Arrive(r) ==
    /\ r \in replies
    /\ replies' = replies \ {r}
    /\ txn' = None
    /\ cookie' = CASE r.kind = "session" -> r.session
                   [] r.kind = "logout" -> None
                   [] r.kind = "error" -> cookie
    /\ UNCHANGED <<allVars, serverVars, begun, out, lost, logouts, reloads>>

ReplyLost(r) ==
    /\ r \in replies
    /\ replies' = replies \ {r}
    /\ UNCHANGED <<allVars, serverVars, begun, txn, cookie, out, lost, logouts, reloads>>

\* The transaction lives for ten minutes, the session for at most eight hours.
CookieExpires ==
    /\ \/ txn # None /\ txn' = None /\ UNCHANGED cookie
       \/ cookie # None /\ cookie' = None /\ UNCHANGED txn
    /\ UNCHANGED <<allVars, serverVars, begun, replies, out, lost, logouts, reloads>>

\* readAuth0SessionCookie
SessionOfCookie == {c \in sessions : c = cookie}

\* Mutant: only the cookie is cleared.
LogoutOfBrowser ==
    /\ logouts < MaxLogouts /\ logouts' = logouts + 1
    /\ out' = out \cup SessionOfCookie
    /\ Reply("logout", None)
    /\ UNCHANGED <<allVars, serverVars, begun, txn, cookie, lost, reloads>>

Logout ==
    /\ logouts < MaxLogouts /\ logouts' = logouts + 1
    /\ sessions' = sessions \ SessionOfCookie
    /\ out' = out \cup SessionOfCookie
    /\ Reply("logout", None)
    /\ UNCHANGED <<allVars, fe, login, registered, redeemed,
                   begun, txn, cookie, lost, reloads>>

------------------------------------------------------------------------------
(* The callback.                                                            *)
At(c, stage) == fe[c] = stage
Go(c, stage) == fe' = [fe EXCEPT ![c] = stage]

RedirectWithError(c) == Go(c, "gone") /\ Reply("error", None)

\* The URL of a callback may be loaded again, and may carry Auth0's error.
Callback(c, n) ==
    /\ At(c, "new") /\ n \in begun
    /\ login' = [login EXCEPT ![c] = n]
    /\ \/ txn = n /\ Go(c, "exchange") /\ UNCHANGED replies
       \/ RedirectWithError(c)
    /\ UNCHANGED <<allVars, sessions, registered, redeemed,
                   begun, txn, cookie, out, lost, logouts, reloads>>

\* A code is exchanged once; the tokens are verified after it was.
Exchange(c) ==
    /\ At(c, "exchange")
    /\ \/ /\ login[c] \notin redeemed
          /\ redeemed' = redeemed \cup {login[c]}
          /\ \/ Go(c, "metadata") /\ UNCHANGED replies
             \/ RedirectWithError(c)
       \/ RedirectWithError(c) /\ UNCHANGED redeemed
    /\ UNCHANGED <<allVars, login, sessions, registered,
                   begun, txn, cookie, out, lost, logouts, reloads>>

\* loadAuth0UserSession: the supervisor's request is this callback's.
AskSupervisor(c) == At(c, "metadata") /\ Receive(c) /\ UNCHANGED loginVars

\* Mutant: the session is stored before its token is registered.
MetadataStored(c) ==
    /\ At(c, "metadata") /\ sup[c] = "ok"
    /\ Go(c, "register")
    /\ sessions' = sessions \cup {c}
    /\ UNCHANGED <<allVars, login, registered, redeemed, browserVars, reloads>>

MetadataLoaded(c) ==
    /\ At(c, "metadata") /\ sup[c] = "ok"
    /\ Go(c, "register")
    /\ UNCHANGED <<allVars, login, sessions, registered, redeemed, browserVars, reloads>>

\* The connection to the supervisor or the agent service is lost, or either
\* answers with an error; what it has done by then stays done.
CallFails(c) ==
    /\ fe[c] \in {"metadata", "register", "store"}
    /\ RedirectWithError(c)
    /\ UNCHANGED <<allVars, login, sessions, registered, redeemed,
                   begun, txn, cookie, out, lost, logouts, reloads>>

\* register_token_context in the agent service.
Register(c) ==
    /\ At(c, "register")
    /\ registered' = registered \cup {c}
    /\ Go(c, "store")
    /\ UNCHANGED <<allVars, login, sessions, redeemed, browserVars, reloads>>

\* Mutant: a new session takes the place of the others.
StoreOnly(c) ==
    /\ At(c, "store")
    /\ Go(c, "done")
    /\ sessions' = {c}
    /\ Reply("session", c)
    /\ UNCHANGED <<allVars, login, registered, redeemed,
                   begun, txn, cookie, out, lost, logouts, reloads>>

\* createAuth0SessionCookieValue, in one step with the answer.
Store(c) ==
    /\ At(c, "store")
    /\ Go(c, "done")
    /\ sessions' = sessions \cup {c}
    /\ Reply("session", c)
    /\ UNCHANGED <<allVars, login, registered, redeemed,
                   begun, txn, cookie, out, lost, logouts, reloads>>

\* The frontend server ends: its sessions and running callbacks are gone.
Reload ==
    /\ reloads < MaxReloads /\ reloads' = reloads + 1
    /\ sessions' = {}
    /\ lost' = lost \cup sessions
    /\ fe' = [c \in Sessions |-> IF fe[c] \in Awaiting THEN "gone" ELSE fe[c]]
    /\ UNCHANGED <<allVars, login, registered, redeemed,
                   begun, txn, cookie, replies, out, logouts>>

CallbackStep(c) ==
    \/ Exchange(c) \/ AskSupervisor(c) \/ MetadataLoaded(c)
    \/ CallFails(c) \/ Register(c) \/ Store(c)

Browser ==
    \/ \E n \in Logins : Begin(n)
    \/ \E r \in replies : Arrive(r) \/ ReplyLost(r)
    \/ CookieExpires \/ Logout

LoginNext ==
    \/ \E c \in Sessions : CallbackStep(c) \/ \E n \in Logins : Callback(c, n)
    \/ (\E s \in Sessions : SupervisorStep(s)) /\ UNCHANGED loginVars
    \/ SupervisorRestarts /\ UNCHANGED loginVars
    \/ Browser \/ Reload

LoginSpec == LoginInit /\ [][LoginNext]_<<allVars, loginVars>>

------------------------------------------------------------------------------
(* A session that a request can use is complete: the supervisor answered for  *)
(* it, its user has scopes and tools, and the agent service has its token.    *)
SessionReady ==
    /\ LoginTypeOK
    /\ \A c \in sessions : /\ c \in registered
                           /\ sup[c] = "ok" /\ meta[c].scopes /\ meta[c].tools

(* Nobody brings back a session that was logged out: not a callback that is   *)
(* still running, nor the answer of one that arrives late.                    *)
LoggedOutStaysOut == out \cap sessions = {}

(* A cookie names a session the server has, unless that was logged out or     *)
(* lost with its process, in whichever order several tabs' answers arrive.    *)
CookieResolves == cookie # None /\ cookie \notin out \cup lost => cookie \in sessions
==============================================================================
