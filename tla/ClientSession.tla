--------------------------- MODULE ClientSession ---------------------------
(***************************************************************************)
(* The session of one page of the web client: login, logout and            *)
(* restoreSession of store/authStore.ts, and request() of services/api.ts  *)
(* with its shared refresh on a 401, against the /auth endpoints.          *)
(*                                                                         *)
(* JavaScript runs one callback at a time, so an action is what happens    *)
(* between two awaits that wait for the network.  A call is first handled  *)
(* by the server and later received by the page; in between, anything may  *)
(* happen.  A token pair is one token: its access half may expire, its     *)
(* refresh half is live until it is rotated or revoked.  zustand's persist *)
(* writes refreshToken at every set, so localStorage holds auth.refresh    *)
(* and only that survives a reload.  Other tabs are left out.              *)
(***************************************************************************)
EXTENDS Naturals

CONSTANTS
  Queries,    \* slots for the requests of pages and hooks
  MaxTokens,  \* bound: token pairs the server issues
  MaxLoads    \* bound: reloads of the page

ASSUME ClientAssumption ==
  /\ Queries \cap {"restore", "login", "logout", "refresher"} = {}
  /\ MaxTokens \in Nat \ {0}
  /\ MaxLoads \in Nat

VARIABLES
  auth,       \* useAuthStore: status, accessToken, refreshToken, is there a user?
  call,       \* the asynchronous functions of the page, see Procs
  live,       \* server: refresh tokens that would be accepted
  fresh,      \* server: access tokens that would be accepted
  issued,     \* server: how many token pairs it has given out
  loads,      \* reloads so far
  spent       \* history: how often this page load presented a token for refresh

vars == <<auth, call, live, fresh, issued, loads, spent>>
server == <<live, fresh, issued>>
-----------------------------------------------------------------------------
\* Token pairs are numbered as they are issued.
Tokens == 1..MaxTokens
None == 0

\* "refresher" is performRefresh: it is under way as long as refreshPromise
\* is not null.
Procs == {"restore", "login", "logout", "refresher"} \cup Queries

\* pc: which endpoint was called ("call" and "again" are any other endpoint
\* than the /auth ones, first and second try), or "wait": for refreshPromise.
Idle == [pc |-> "idle", tok |-> None, resp |-> "none", new |-> None]
Fetch(pc, tok) == [pc |-> pc, tok |-> tok, resp |-> "none", new |-> None]

Cleared == [status |-> "unauthenticated", access |-> None, refresh |-> None, user |-> FALSE]
\* setTokens: status and user stay.
WithTokens(t) == [auth EXCEPT !.access = t, !.refresh = t]

Init ==
  /\ issued \in {0, 1}
  /\ live = 1..issued
  /\ fresh = {}
  /\ auth = [Cleared EXCEPT !.status = "idle", !.refresh = issued]
  /\ call = [p \in Procs |-> Idle]
  /\ loads = 0
  /\ spent = [t \in Tokens |-> 0]

Present(t) == spent' = [spent EXCEPT ![t] = @ + 1]

\* The page is reloaded; its calls are abandoned.
Load ==
  /\ loads < MaxLoads
  /\ loads' = loads + 1
  /\ auth' = [Cleared EXCEPT !.status = "idle", !.refresh = auth.refresh]
  /\ call' = [p \in Procs |-> Idle]
  /\ spent' = [t \in Tokens |-> 0]
  /\ UNCHANGED <<server>>

\* restoreSession, on mount and only when the status is idle.
Restore ==
  /\ auth.status = "idle"
  /\ IF auth.refresh = None
     THEN auth' = [auth EXCEPT !.status = "unauthenticated"] /\ UNCHANGED <<call, spent>>
     ELSE /\ auth' = [auth EXCEPT !.status = "authenticating"]
          /\ call' = [call EXCEPT !["restore"] = Fetch("refresh", auth.refresh)]
          /\ Present(auth.refresh)
  /\ UNCHANGED <<server, loads>>

\* The form of /login, which is also there while a session is being restored.
Login ==
  /\ auth.status \in {"authenticating", "unauthenticated"}
  /\ call["login"].pc = "idle"
  /\ auth' = [auth EXCEPT !.status = "authenticating"]
  /\ call' = [call EXCEPT !["login"] = Fetch("login", None)]
  /\ UNCHANGED <<server, loads, spent>>

\* logout clears the store before it tells the server.  (A second logout while
\* the first one's request is under way is left out.)
Logout ==
  /\ auth.status = "authenticated"
  /\ call["logout"].pc = "idle"
  /\ auth' = Cleared
  /\ call' = IF auth.refresh = None THEN call
             ELSE [call EXCEPT !["logout"] = Fetch("logout", auth.refresh)]
  /\ UNCHANGED <<server, loads, spent>>

\* A page or a hook calls request().
Ask(q) ==
  /\ auth.status = "authenticated"
  /\ call[q].pc = "idle"
  /\ call' = [call EXCEPT ![q] = Fetch("call", auth.access)]
  /\ UNCHANGED <<auth, server, loads, spent>>
-----------------------------------------------------------------------------
(* The server. *)

Answer(p, resp, t) == call' = [call EXCEPT ![p].resp = resp, ![p].new = t]

\* A new pair, in place of the refresh tokens that it replaces.
Issue(p, replaced) ==
  /\ issued < MaxTokens
  /\ issued' = issued + 1
  /\ live' = (live \ replaced) \cup {issued + 1}
  /\ fresh' = fresh \cup {issued + 1}
  /\ Answer(p, "ok", issued + 1)

\* POST /auth/refresh: rotate, or 401.
ServeRefresh(p) ==
  /\ call[p].pc = "refresh" /\ call[p].resp = "none"
  /\ \/ /\ call[p].tok \in live
        /\ Issue(p, {call[p].tok})
     \/ /\ call[p].tok \notin live
        /\ Answer(p, "401", None)
        /\ UNCHANGED server
  /\ UNCHANGED <<auth, loads, spent>>

\* POST /auth/login: a new pair, or 401.
ServeLogin ==
  /\ call["login"].pc = "login" /\ call["login"].resp = "none"
  /\ \/ Issue("login", {})
     \/ Answer("login", "401", None) /\ UNCHANGED server
  /\ UNCHANGED <<auth, loads, spent>>

\* POST /auth/logout: revoke, or 401 if there is nothing to revoke.
ServeLogout ==
  /\ call["logout"].pc = "logout" /\ call["logout"].resp = "none"
  /\ live' = live \ {call["logout"].tok}
  /\ Answer("logout", IF call["logout"].tok \in live THEN "ok" ELSE "401", None)
  /\ UNCHANGED <<auth, fresh, issued, loads, spent>>

\* Any other endpoint looks at the access token only.
ServeCall(p) ==
  /\ call[p].pc \in {"call", "again"} /\ call[p].resp = "none"
  /\ Answer(p, IF call[p].tok \in fresh THEN "ok" ELSE "401", None)
  /\ UNCHANGED <<auth, server, loads, spent>>

\* The request or its answer is lost, or the answer is another error (429, 500).
Lose(p) ==
  /\ call[p].pc \notin {"idle", "wait"} /\ call[p].resp # "error"
  /\ Answer(p, "error", None)
  /\ UNCHANGED <<auth, server, loads, spent>>

ExpireAccess(t) ==
  /\ t \in fresh
  /\ fresh' = fresh \ {t}
  /\ UNCHANGED <<auth, call, live, issued, loads, spent>>
-----------------------------------------------------------------------------
(* What the page does with the answers. *)

\* login and restoreSession: setTokens, then GET /auth/me.
TokensArrive(p) ==
  /\ p \in {"login", "restore"}
  /\ call[p].pc \in {"login", "refresh"} /\ call[p].resp = "ok"
  /\ auth' = WithTokens(call[p].new)
  /\ call' = [call EXCEPT ![p] = Fetch("call", call[p].new)]
  /\ UNCHANGED <<server, loads, spent>>

SignInFails(p) ==
  /\ p \in {"login", "restore"}
  /\ call[p].pc \in {"login", "refresh"} /\ call[p].resp \in {"401", "error"}
  /\ auth' = Cleared
  /\ call' = [call EXCEPT ![p] = Idle]
  /\ UNCHANGED <<server, loads, spent>>

\* request() returns; for login and restoreSession that is the user profile.
CallReturns(p) ==
  /\ call[p].pc \in {"call", "again"} /\ call[p].resp = "ok"
  /\ auth' = IF p \in Queries THEN auth
             ELSE [auth EXCEPT !.status = "authenticated", !.user = TRUE]
  /\ call' = [call EXCEPT ![p] = Idle]
  /\ UNCHANGED <<server, loads, spent>>

\* request() throws; login and restoreSession then clear the store.
Throw(p) ==
  /\ auth' = IF p \in Queries THEN auth ELSE Cleared
  /\ call' = [call EXCEPT ![p] = Idle]
  /\ UNCHANGED <<server, loads, spent>>

CallFails(p) ==
  /\ \/ call[p].pc \in {"call", "again"} /\ call[p].resp = "error"
     \/ call[p].pc = "again" /\ call[p].resp = "401"
  /\ Throw(p)

\* Mutant: a 401 starts a refresh, whether or not one is under way.
CallDeniedAlone(p) ==
  /\ call[p].pc = "call" /\ call[p].resp = "401"
  /\ IF auth.refresh = None THEN Throw(p)
     ELSE /\ call' = [call EXCEPT ![p] = Fetch("wait", None),
                                  !["refresher"] = Fetch("refresh", auth.refresh)]
          /\ Present(auth.refresh)
          /\ UNCHANGED <<auth, server, loads>>

\* A 401 at the first try: join the refresh under way, or start one.
CallDenied(p) ==
  /\ call[p].pc = "call" /\ call[p].resp = "401"
  /\ \/ /\ call["refresher"].pc # "idle"
        /\ call' = [call EXCEPT ![p] = Fetch("wait", None)]
        /\ UNCHANGED <<auth, server, loads, spent>>
     \/ /\ call["refresher"].pc = "idle" /\ auth.refresh # None
        /\ call' = [call EXCEPT ![p] = Fetch("wait", None),
                                !["refresher"] = Fetch("refresh", auth.refresh)]
        /\ Present(auth.refresh)
        /\ UNCHANGED <<auth, server, loads>>
     \/ /\ call["refresher"].pc = "idle" /\ auth.refresh = None
        /\ Throw(p)

\* Mutants: only the requests that succeed are woken; a success is not stored.
RefreshSettlesStranding ==
  LET r == call["refresher"]
  IN  /\ r.pc = "refresh" /\ r.resp # "none"
      /\ auth' = IF r.resp = "ok" THEN WithTokens(r.new) ELSE Cleared
      /\ call' = [p \in Procs |->
                    IF p = "refresher" THEN Idle
                    ELSE IF call[p].pc = "wait" /\ r.resp = "ok" THEN Fetch("again", r.new)
                    ELSE call[p]]
      /\ UNCHANGED <<server, loads, spent>>

RefreshSettlesUnstored ==
  LET r == call["refresher"]
  IN  /\ r.pc = "refresh" /\ r.resp # "none"
      /\ auth' = IF r.resp = "ok" THEN auth ELSE Cleared
      /\ call' = [p \in Procs |->
                    IF p = "refresher" THEN Idle
                    ELSE IF call[p].pc # "wait" THEN call[p]
                    ELSE IF r.resp = "ok" THEN Fetch("again", r.new) ELSE Idle]
      /\ UNCHANGED <<server, loads, spent>>

\* performRefresh settles, and with it everyone who waits: on success each
\* tries once more, otherwise each throws the 401 it got.
RefreshSettles ==
  LET r == call["refresher"]
  IN  /\ r.pc = "refresh" /\ r.resp # "none"
      /\ auth' = IF r.resp = "ok" THEN WithTokens(r.new) ELSE Cleared
      /\ call' = [p \in Procs |->
                    IF p = "refresher" THEN Idle
                    ELSE IF call[p].pc # "wait" THEN call[p]
                    ELSE IF r.resp = "ok" THEN Fetch("again", r.new) ELSE Idle]
      /\ UNCHANGED <<server, loads, spent>>

\* Best effort: the answer does not matter.
LogoutReturns ==
  /\ call["logout"].pc = "logout" /\ call["logout"].resp # "none"
  /\ call' = [call EXCEPT !["logout"] = Idle]
  /\ UNCHANGED <<auth, server, loads, spent>>

Serve(p) == ServeRefresh(p) \/ ServeCall(p)

Receive(p) == TokensArrive(p) \/ SignInFails(p) \/ CallReturns(p) \/ CallFails(p) \/ CallDenied(p)

Next ==
  \/ Load \/ Restore \/ Login \/ Logout
  \/ \E q \in Queries : Ask(q)
  \/ ServeLogin \/ ServeLogout
  \/ \E p \in Procs : Serve(p) \/ Lose(p) \/ Receive(p)
  \/ \E t \in Tokens : ExpireAccess(t)
  \/ RefreshSettles \/ LogoutReturns

\* Requests are answered or fail in the end, and callbacks run; nothing is
\* assumed of the user, of expiry or of losses.
Fairness ==
  /\ \A p \in Procs : WF_vars(Serve(p) \/ Lose(p)) /\ WF_vars(Receive(p))
  /\ WF_vars(RefreshSettles)

Spec == Init /\ [][Next]_vars /\ Fairness
-----------------------------------------------------------------------------
\* Types of the store and of the page's asynchronous functions; the access
\* token and the refresh token in the store come from one answer.
TypeOK ==
  /\ auth \in [status : {"idle", "authenticating", "authenticated", "unauthenticated"},
               access : Tokens \cup {None}, refresh : Tokens \cup {None}, user : BOOLEAN]
  /\ auth.access \in {None, auth.refresh}
  /\ call \in [Procs -> [pc : {"idle", "refresh", "login", "logout", "call", "again", "wait"},
                         tok : Tokens \cup {None}, resp : {"none", "ok", "401", "error"},
                         new : Tokens \cup {None}]]
  /\ issued \in 0..MaxTokens /\ live \subseteq 1..issued /\ fresh \subseteq 1..issued
  /\ loads \in 0..MaxLoads
  /\ spent \in [Tokens -> Nat]

\* Client and server rotate in step, also when answers are lost: the refresh
\* token of a signed-in page is one the server accepts, or the one that the
\* refresh under way is exchanging.  So an expired access token alone never
\* costs a user the session, however many requests notice it at once.
Lockstep ==
  auth.status = "authenticated" /\ auth.refresh # None =>
    \/ auth.refresh \in live
    \/ call["refresher"].pc = "refresh" /\ call["refresher"].tok = auth.refresh

\* "Only one /auth/refresh call is ever in flight", where it matters: no page
\* load presents one refresh token twice, restoreSession, which goes past the
\* shared promise, included.
OncePerToken == \A t \in Tokens : spent[t] <= 1

\* Every request() of a page settles.
RequestsSettle == \A q \in Queries : call[q].pc # "idle" ~> call[q].pc = "idle"
=============================================================================
