------------------------ MODULE ClientSessionProofs ------------------------
(***************************************************************************)
(* Client and server stay in step for every number of concurrent requests, *)
(* of token pairs and of reloads.                                          *)
(***************************************************************************)
EXTENDS ClientSession, TLAPS

-----------------------------------------------------------------------------
(* The inductive invariant.                                                *)

Calling == {"call", "again", "wait"}

\* Which endpoints each asynchronous function calls; a new pair is in the
\* answer of /auth/refresh or /auth/login only.
Shapes ==
  /\ call["refresher"].pc \in {"idle", "refresh"}
  /\ call["logout"].pc \in {"idle", "logout"}
  /\ call["restore"].pc \in {"idle", "refresh"} \cup Calling
  /\ call["login"].pc \in {"idle", "login"} \cup Calling
  /\ \A q \in Queries : call[q].pc \in {"idle"} \cup Calling
  /\ \A p \in Procs :
       /\ call[p].pc \in {"refresh", "logout"} => call[p].tok # None
       /\ call[p].new # None <=> call[p].pc \in {"refresh", "login"} /\ call[p].resp = "ok"

\* Before restoreSession nothing of this page load has happened.
Quiet ==
  auth.status = "idle" => /\ \A p \in Procs : call[p] = Idle
                          /\ \A t \in Tokens : spent[t] = 0

\* Nobody holds a token that was not issued.
Known ==
  /\ auth.refresh <= issued
  /\ \A p \in Procs : call[p].tok <= issued /\ call[p].new <= issued
  /\ \A t \in Tokens : spent[t] > 0 => t <= issued

\* A pair on its way to the page is live, and known to nobody else.
Unseen ==
  \A p \in Procs : call[p].new # None =>
    /\ call[p].new \in live /\ spent[call[p].new] = 0 /\ auth.refresh # call[p].new
    /\ \A q \in Procs : call[q].pc \in {"refresh", "logout"} => call[q].tok # call[p].new
    /\ \A q \in Procs \ {p} : call[q].new # call[p].new

\* A token that is being revoked is no longer in the store.
LoggedOut == call["logout"].pc = "logout" => call["logout"].tok # auth.refresh

\* While restoreSession exchanges the token in the store, nobody is signed in
\* and nobody can be denied.
Restoring ==
  call["restore"].pc = "refresh" /\ call["restore"].tok = auth.refresh =>
    /\ auth.status # "authenticated"
    /\ \A p \in Procs : call[p].pc \notin Calling

Exchanging == call["refresher"].pc = "refresh" /\ call["refresher"].tok = auth.refresh

\* A token in the store that was presented is being exchanged.
Presented ==
  \A t \in Tokens : t = auth.refresh /\ spent[t] > 0 =>
    Exchanging \/ (call["restore"].pc = "refresh" /\ call["restore"].tok = t)

\* Lockstep, from the moment a sign-in has its tokens.
Held ==
  /\ auth.refresh # None
  /\ auth.status = "authenticated" \/ call["login"].pc \in Calling \/ call["restore"].pc \in Calling
  => auth.refresh \in live \/ Exchanging

IInv == /\ TypeOK /\ Shapes /\ Quiet /\ Known /\ Unseen /\ LoggedOut /\ Restoring
        /\ Presented /\ Held /\ OncePerToken

-----------------------------------------------------------------------------
(* Records of the page.                                                    *)

Auths == [status : {"idle", "authenticating", "authenticated", "unauthenticated"},
          access : Tokens \cup {None}, refresh : Tokens \cup {None}, user : BOOLEAN]
Calls == [pc : {"idle", "refresh", "login", "logout", "call", "again", "wait"},
          tok : Tokens \cup {None}, resp : {"none", "ok", "401", "error"},
          new : Tokens \cup {None}]

LEMMA Fields ==
  /\ Idle.pc = "idle" /\ Idle.tok = None /\ Idle.resp = "none" /\ Idle.new = None /\ Idle \in Calls
  /\ \A pc, tok : /\ Fetch(pc, tok).pc = pc /\ Fetch(pc, tok).tok = tok
                  /\ Fetch(pc, tok).resp = "none" /\ Fetch(pc, tok).new = None
  /\ Cleared.status = "unauthenticated" /\ Cleared.refresh = None /\ Cleared.access = None
  /\ Cleared \in Auths
  BY DEF Idle, Fetch, Cleared, Calls, Auths

LEMMA FetchTyped ==
  ASSUME NEW pc \in {"refresh", "login", "logout", "call", "again", "wait"},
         NEW tok \in Tokens \cup {None}
  PROVE  Fetch(pc, tok) \in Calls
  BY DEF Fetch, Calls

LEMMA WithTokensFields ==
  ASSUME auth \in Auths, NEW t \in Tokens
  PROVE  /\ WithTokens(t) \in Auths /\ WithTokens(t).status = auth.status
         /\ WithTokens(t).refresh = t /\ WithTokens(t).access = t
  BY DEF WithTokens, Auths

LEMMA Numbers ==
  ASSUME TypeOK
  PROVE  /\ issued \in Nat /\ MaxTokens \in Nat /\ issued <= MaxTokens
         /\ None \notin Tokens /\ Tokens \subseteq Nat /\ None \in Nat
         /\ auth \in Auths /\ call \in [Procs -> Calls]
         /\ {"restore", "login", "logout", "refresher"} \subseteq Procs /\ Queries \subseteq Procs
         /\ \A t \in Tokens : spent[t] \in Nat
  BY ClientAssumption DEF TypeOK, Tokens, None, Auths, Calls, Procs

\* A server's answer changes two fields of one call.
LEMMA AnswerFields ==
  ASSUME call \in [Procs -> Calls], NEW p \in Procs, NEW resp \in {"ok", "401", "error"},
         NEW t \in Tokens \cup {None}, Answer(p, resp, t)
  PROVE  /\ call' \in [Procs -> Calls]
         /\ call'[p].pc = call[p].pc /\ call'[p].tok = call[p].tok
         /\ call'[p].resp = resp /\ call'[p].new = t
         /\ \A q \in Procs \ {p} : call'[q] = call[q]
  BY DEF Answer, Calls

\* Answers without tokens, received or lost.
LEMMA EmptyAnswerKeepsIInv ==
  ASSUME IInv, NEW p \in Procs, NEW resp \in {"ok", "401", "error"}, Answer(p, resp, None),
         resp = "ok" => call[p].pc \notin {"refresh", "login"}, call[p].pc # "idle",
         UNCHANGED <<auth, live, fresh, issued, loads, spent>>
  PROVE  IInv'
<1> USE DEF IInv
<1>1. /\ call' \in [Procs -> Calls]
      /\ call'[p].pc = call[p].pc /\ call'[p].tok = call[p].tok
      /\ call'[p].resp = resp /\ call'[p].new = None
      /\ \A q \in Procs \ {p} : call'[q] = call[q]
  <2>1. None \in Tokens \cup {None}
    OBVIOUS
  <2> QED BY <2>1, Numbers, AnswerFields
<1>2. \A q \in Procs : /\ call'[q].pc = call[q].pc /\ call'[q].tok = call[q].tok
                       /\ call'[q].new # None => call'[q] = call[q]
  BY <1>1
<1>3. TypeOK'
  BY <1>1 DEF TypeOK, Calls
<1>4. Shapes'
  BY <1>1, <1>2, Numbers DEF Shapes
<1>5. Quiet'
  BY Fields DEF Quiet
<1>6. Known'
  BY <1>1, Numbers DEF Known, None
<1>7. Unseen'
  BY <1>1, <1>2 DEF Unseen
<1>8. LoggedOut' /\ Restoring'
  BY <1>2, Numbers DEF LoggedOut, Restoring
<1>9. Exchanging' = Exchanging
  BY <1>2, Numbers DEF Exchanging
<1>10. Presented' /\ Held' /\ OncePerToken'
  BY <1>2, <1>9, Numbers DEF Presented, Held, OncePerToken
<1> QED BY <1>3, <1>4, <1>5, <1>6, <1>7, <1>8, <1>10

\* One call moves on and the store stays.
LEMMA PageStepKeepsIInv ==
  ASSUME IInv, NEW p \in Procs, p # "refresher", NEW c \in Calls, call' = [call EXCEPT ![p] = c],
         c.new = None, c.tok <= issued, c.pc \in {"idle"} \cup Calling,
         p = "logout" => c.pc = "idle", auth.status # "idle",
         call[p].pc \in {"idle", "logout"} \cup Calling,
         c.pc \in Calling => (p \in Queries /\ auth.status = "authenticated") \/ call[p].pc \in Calling,
         UNCHANGED <<auth, live, fresh, issued, loads, spent>>
  PROVE  IInv'
<1> USE DEF IInv
<1>1. call' \in [Procs -> Calls] /\ call'[p] = c /\ \A q \in Procs \ {p} : call'[q] = call[q]
  BY Numbers
<1>2. TypeOK'
  BY <1>1 DEF TypeOK, Calls
<1>3. Shapes'
  BY <1>1, Numbers, ClientAssumption DEF Shapes, Calling
<1>4. Quiet' /\ Known'
  BY <1>1, Numbers DEF Quiet, Known, None
<1>5. Unseen'
  BY <1>1 DEF Unseen, Calling
<1>6. LoggedOut' /\ Restoring'
  BY <1>1, Numbers DEF LoggedOut, Restoring, Calling
<1>7. Exchanging' = Exchanging
  BY <1>1, Numbers DEF Exchanging
<1>8. Presented' /\ Held' /\ OncePerToken'
  BY <1>1, <1>7, Numbers, ClientAssumption DEF Presented, Held, OncePerToken, Calling
<1> QED BY <1>2, <1>3, <1>4, <1>5, <1>6, <1>8

\* The store is cleared: at most the token that was in it is still used.
LEMMA ClearingKeepsIInv ==
  ASSUME IInv, auth' = Cleared, call' \in [Procs -> Calls], Shapes',
         \A q \in Procs : call'[q].new # None => call'[q] = call[q],
         \A q \in Procs : \/ call'[q] = call[q] \/ call'[q] = Idle
                          \/ call'[q] = Fetch("logout", auth.refresh),
         UNCHANGED <<live, fresh, issued, loads, spent>>
  PROVE  IInv'
<1> USE DEF IInv
<1>1. auth'.refresh = None /\ auth'.status = "unauthenticated"
  BY Fields
<1>2. TypeOK'
  BY Fields DEF TypeOK, Calls, Auths
<1>3. Quiet' /\ Known'
  BY <1>1, Fields, Numbers DEF Quiet, Known, None
<1>4. Unseen'
  <2>1. ASSUME NEW q \in Procs, call'[q].pc \in {"refresh", "logout"}
        PROVE  \/ call'[q].tok = call[q].tok /\ call[q].pc \in {"refresh", "logout"}
               \/ call'[q].tok = auth.refresh
    BY <2>1, Fields
  <2>2. ASSUME NEW p \in Procs, NEW q \in Procs \ {p}, call'[p].new # None
        PROVE  call'[q].new # call'[p].new
    BY <2>2, Fields DEF Unseen
  <2> QED BY <1>1, <2>1, <2>2 DEF Unseen
<1>5. LoggedOut' /\ Restoring'
  BY <1>1, Numbers DEF LoggedOut, Restoring, Shapes
<1>6. Presented' /\ Held' /\ OncePerToken'
  BY <1>1, Numbers DEF Presented, Held, OncePerToken
<1> QED BY <1>2, <1>3, <1>4, <1>5, <1>6

\* The answer of r brings a new pair into the store.
LEMMA NewTokensKeepIInv ==
  ASSUME IInv, NEW r \in Procs, call[r].new # None, auth' = WithTokens(call[r].new),
         call' \in [Procs -> Calls], Shapes',
         \A q \in Procs : call'[q].new # None \/ call'[q].pc \in {"refresh", "logout"} =>
                            q # r /\ call'[q] = call[q],
         \A q \in Procs : call'[q].tok <= issued,
         UNCHANGED <<live, fresh, issued, loads, spent>>
  PROVE  IInv'
<1> USE DEF IInv
<1> DEFINE t == call[r].new
<1>1. t \in Tokens /\ t <= issued /\ t \in live /\ spent[t] = 0 /\ call[r] # Idle
  BY Numbers, Fields DEF Unseen, Known, Calls
<1>2. auth' \in Auths /\ auth'.status = auth.status /\ auth'.refresh = t /\ auth'.access = t
  BY <1>1, Numbers, WithTokensFields
<1>3. /\ \A q \in Procs : call[q].pc \in {"refresh", "logout"} => call[q].tok # t
      /\ \A q \in Procs \ {r} : call[q].new # t
  BY DEF Unseen
<1> HIDE DEF t
<1>4. TypeOK'
  BY <1>2 DEF TypeOK, Calls, Auths
<1>5. Quiet'
  BY <1>1, <1>2 DEF Quiet
<1>6. Known'
  BY <1>1, <1>2, Numbers DEF Known, None
<1>7. Unseen'
  BY <1>2, <1>3 DEF Unseen
<1>8. LoggedOut' /\ Restoring'
  BY <1>2, <1>3, Numbers DEF LoggedOut, Restoring
<1>9. Presented' /\ Held' /\ OncePerToken'
  BY <1>1, <1>2 DEF Presented, Held, OncePerToken
<1> QED BY <1>4, <1>5, <1>6, <1>7, <1>8, <1>9

\* The server issues a pair to p in place of what p presented.
LEMMA IssueKeepsIInv ==
  ASSUME IInv, NEW p \in Procs, NEW old, Issue(p, old), call[p].resp = "none",
         \/ p = "login" /\ call[p].pc = "login" /\ old = {}
         \/ call[p].pc = "refresh" /\ old = {call[p].tok},
         UNCHANGED <<auth, loads, spent>>
  PROVE  IInv'
<1> USE DEF IInv
<1> DEFINE t == issued + 1
<1>1. /\ t \in Tokens /\ issued' = t /\ t <= MaxTokens /\ t # None
      /\ live' = (live \ old) \cup {t} /\ fresh' = fresh \cup {t}
  BY Numbers DEF Issue, Tokens, None
<1>2. /\ call' \in [Procs -> Calls]
      /\ call'[p].pc = call[p].pc /\ call'[p].tok = call[p].tok
      /\ call'[p].resp = "ok" /\ call'[p].new = t
      /\ \A q \in Procs \ {p} : call'[q] = call[q]
  BY <1>1, Numbers, AnswerFields DEF Issue
<1>3. /\ \A q \in Procs : call[q].tok # t /\ call[q].new # t
      /\ auth.refresh # t /\ spent[t] = 0
  <2>1. ~ (t <= issued)
    BY Numbers
  <2>2. ~ (spent[t] > 0) /\ spent[t] \in Nat
    BY <1>1, <2>1, Numbers DEF Known
  <2> QED BY <2>1, <2>2 DEF Known
<1>4. \A q \in Procs : call'[q].pc = call[q].pc /\ call'[q].tok = call[q].tok
  BY <1>2
<1>5. TypeOK'
  <2>1. live' \subseteq 1..t /\ fresh' \subseteq 1..t
    <3>1. 1..issued \subseteq 1..t /\ t \in 1..t
      BY Numbers
    <3>2. live \subseteq 1..issued /\ fresh \subseteq 1..issued
      BY DEF TypeOK
    <3> QED BY <1>1, <3>1, <3>2
  <2>2. issued' \in 0..MaxTokens
    BY <1>1, Numbers
  <2> QED BY <1>1, <1>2, <2>1, <2>2 DEF TypeOK, Calls
<1> HIDE DEF t
<1>6. Shapes'
  BY <1>1, <1>2, <1>4, Numbers DEF Shapes
<1>7. Quiet'
  BY Fields DEF Quiet
<1>8. Known'
  <2>1. issued <= t /\ t \in Nat /\ t <= t
    BY Numbers DEF t
  <2>2. \A q \in Procs : call[q].tok \in Nat /\ call[q].new \in Nat
    BY Numbers DEF Calls
  <2>3. auth.refresh \in Nat
    BY Numbers DEF Auths
  <2> QED BY <1>1, <1>2, <2>1, <2>2, <2>3, Numbers DEF Known
<1>9. Unseen'
  <2>1. ASSUME NEW x \in Procs, call'[x].new # None, x # p
        PROVE  /\ call'[x].new \in live' /\ call'[x].new = call[x].new /\ call[x].new # t
    BY <1>1, <1>2, <1>3, <2>1 DEF Unseen
  <2>2. ASSUME NEW x \in Procs, call'[x].new # None, x # p
        PROVE  /\ spent[call[x].new] = 0 /\ auth.refresh # call[x].new
               /\ \A q \in Procs : call[q].pc \in {"refresh", "logout"} => call[q].tok # call[x].new
               /\ \A q \in Procs \ {x} : call'[q].new # call[x].new
    BY <1>2, <1>3, <2>1, <2>2 DEF Unseen
  <2>3. ASSUME NEW q \in Procs \ {p} PROVE call'[q].new # t
    BY <1>2, <1>3
  <2> QED BY <1>1, <1>2, <1>3, <1>4, <2>1, <2>2, <2>3 DEF Unseen
<1>10. LoggedOut' /\ Restoring'
  BY <1>4, Numbers DEF LoggedOut, Restoring
<1>11. Exchanging' = Exchanging
  BY <1>4, Numbers DEF Exchanging
<1>12. Presented' /\ OncePerToken'
  BY <1>4, <1>11, Numbers DEF Presented, OncePerToken
<1>13. Held'
  <2>1. SUFFICES ASSUME auth.refresh # None, ~ Exchanging,
                        \/ auth.status = "authenticated" \/ call["login"].pc \in Calling
                        \/ call["restore"].pc \in Calling
                 PROVE  auth.refresh \in live'
    BY <1>4, <1>11, Numbers DEF Held
  <2>2. auth.refresh \in live
    BY <2>1 DEF Held
  <2>3. auth.refresh \notin old
    <3>1. CASE p = "login" /\ old = {}
      BY <3>1
    <3>2. CASE call[p].pc = "refresh" /\ old = {call[p].tok}
      <4>1. p = "refresher" \/ p = "restore"
        BY <3>2, Numbers DEF Shapes, Calling, Procs
      <4>2. call[p].tok # auth.refresh
        BY <2>1, <3>2, <4>1, Numbers DEF Exchanging, Restoring
      <4> QED BY <3>2, <4>2
    <3> QED BY <3>1, <3>2
  <2> QED BY <1>1, <2>2, <2>3
<1> QED BY <1>5, <1>6, <1>7, <1>8, <1>9, <1>10, <1>12, <1>13

-----------------------------------------------------------------------------
(* The actions.                                                            *)

LEMMA InitIInv == Init => IInv
<1> SUFFICES ASSUME Init PROVE IInv
  OBVIOUS
<1> USE ClientAssumption
<1>1. issued \in {0, 1} /\ issued \in 0..MaxTokens /\ issued \in Tokens \cup {None}
  BY DEF Init, Tokens, None
<1>2. /\ auth \in Auths /\ auth.status = "idle" /\ auth.refresh = issued /\ auth.access = None
  BY <1>1 DEF Init, Cleared, Auths
<1>3. \A p \in Procs : call[p] = Idle
  BY DEF Init
<1>4. call \in [Procs -> Calls]
  BY Fields DEF Init
<1>5. TypeOK
  BY <1>1, <1>2, <1>4 DEF Init, TypeOK, Auths, Calls
<1>6. Shapes /\ Quiet /\ Unseen /\ LoggedOut /\ Restoring
  BY <1>3, <1>5, Fields, Numbers DEF Init, Shapes, Quiet, Unseen, LoggedOut, Restoring
<1>7. Known
  BY <1>1, <1>2, <1>3, <1>5, Fields, Numbers DEF Init, Known, None
<1>8. Presented /\ Held /\ OncePerToken
  BY <1>2, <1>3, <1>5, Fields, Numbers DEF Init, Presented, Held, OncePerToken, Calling
<1> QED BY <1>5, <1>6, <1>7, <1>8 DEF IInv

LEMMA LoadKeepsIInv == IInv /\ Load => IInv'
<1> SUFFICES ASSUME IInv, Load PROVE IInv'
  OBVIOUS
<1> USE DEF IInv
<1>1. auth' \in Auths /\ auth'.status = "idle" /\ auth'.refresh = auth.refresh /\ auth'.access = None
  BY Numbers DEF Load, Cleared, Auths
<1>2. (\A p \in Procs : call'[p] = Idle) /\ call' \in [Procs -> Calls]
  BY Fields DEF Load
<1>3. (\A t \in Tokens : spent'[t] = 0) /\ spent' \in [Tokens -> Nat]
  BY DEF Load
<1>4. TypeOK'
  BY <1>1, <1>2, <1>3, ClientAssumption DEF Load, server, TypeOK, Auths, Calls
<1>5. Shapes' /\ Quiet' /\ Unseen' /\ LoggedOut' /\ Restoring'
  BY <1>1, <1>2, <1>3, Fields, Numbers DEF Shapes, Quiet, Unseen, LoggedOut, Restoring
<1>6. Known'
  BY <1>1, <1>2, <1>3, Fields, Numbers DEF Load, server, Known, None
<1>7. Presented' /\ Held' /\ OncePerToken'
  BY <1>1, <1>2, <1>3, Fields, Numbers DEF Presented, Held, OncePerToken, Calling
<1> QED BY <1>4, <1>5, <1>6, <1>7

\* A token is presented, for the first time, by restoreSession or by the
\* shared refresh.
LEMMA PresentKeepsOnce ==
  ASSUME IInv, NEW t \in Tokens, spent[t] = 0, Present(t)
  PROVE  /\ OncePerToken' /\ spent' \in [Tokens -> Nat] /\ spent'[t] = 1
         /\ \A u \in Tokens \ {t} : spent'[u] = spent[u]
<1>1. spent \in [Tokens -> Nat]
  BY DEF IInv, TypeOK
<1>2. spent' \in [Tokens -> Nat] /\ spent'[t] = 1 /\ \A u \in Tokens \ {t} : spent'[u] = spent[u]
  BY <1>1 DEF Present
<1> QED BY <1>2 DEF IInv, OncePerToken

LEMMA RestoreKeepsIInv == IInv /\ Restore => IInv'
<1> SUFFICES ASSUME IInv, Restore PROVE IInv'
  OBVIOUS
<1> USE DEF IInv
<1>1. (\A p \in Procs : call[p] = Idle) /\ (\A t \in Tokens : spent[t] = 0) /\ auth.status = "idle"
  BY DEF Restore, Quiet
<1>2. UNCHANGED <<live, fresh, issued, loads>>
  BY DEF Restore, server
<1>3. CASE auth.refresh = None
  <2>1. /\ auth' \in Auths /\ auth'.status = "unauthenticated" /\ auth'.refresh = None
        /\ auth'.access = auth.access /\ call' = call /\ spent' = spent
    BY <1>3, Numbers DEF Restore, Auths
  <2>2. TypeOK'
    BY <1>2, <1>3, <2>1 DEF TypeOK, Auths
  <2>3. Shapes' /\ Quiet' /\ Unseen' /\ LoggedOut' /\ Restoring'
    BY <1>1, <2>1, Fields, Numbers DEF Shapes, Quiet, Unseen, LoggedOut, Restoring
  <2>4. Known' /\ Presented' /\ Held' /\ OncePerToken'
    BY <1>1, <1>2, <2>1, Numbers DEF Known, Presented, Held, OncePerToken, None
  <2> QED BY <2>2, <2>3, <2>4
<1>4. CASE auth.refresh # None
  <2> DEFINE t == auth.refresh
  <2>1. t \in Tokens
    BY <1>4, Numbers DEF Auths
  <2>2. /\ auth' \in Auths /\ auth'.status = "authenticating" /\ auth'.refresh = t
        /\ auth'.access = auth.access
    BY <1>4, Numbers DEF Restore, Auths
  <2>3. /\ call' \in [Procs -> Calls] /\ call'["restore"] = Fetch("refresh", t)
        /\ \A q \in Procs \ {"restore"} : call'[q] = Idle
    BY <1>1, <1>4, <2>1, Numbers, FetchTyped DEF Restore
  <2>4. /\ OncePerToken' /\ spent' \in [Tokens -> Nat] /\ spent'[t] = 1
        /\ \A u \in Tokens \ {t} : spent'[u] = spent[u]
    BY <1>1, <1>4, <2>1, PresentKeepsOnce DEF Restore
  <2>5. TypeOK'
    BY <1>2, <2>2, <2>3, <2>4 DEF TypeOK, Auths, Calls
  <2>6. Shapes'
    BY <2>1, <2>3, Fields, Numbers, ClientAssumption DEF Shapes
  <2>7. Quiet' /\ Unseen' /\ LoggedOut' /\ Restoring'
    BY <2>2, <2>3, Fields, Numbers DEF Quiet, Unseen, LoggedOut, Restoring, Calling
  <2>8. Known'
    BY <1>1, <1>2, <2>2, <2>3, <2>4, Fields, Numbers DEF Known, None
  <2>9. Presented' /\ Held'
    BY <1>1, <2>2, <2>3, <2>4, Fields, Numbers DEF Presented, Held, Calling
  <2> QED BY <2>4, <2>5, <2>6, <2>7, <2>8, <2>9
<1> QED BY <1>3, <1>4

LEMMA LoginKeepsIInv == IInv /\ Login => IInv'
<1> SUFFICES ASSUME IInv, Login PROVE IInv'
  OBVIOUS
<1> USE DEF IInv
<1>1. /\ auth' \in Auths /\ auth'.status = "authenticating" /\ auth'.refresh = auth.refresh
      /\ auth'.access = auth.access
  BY Numbers DEF Login, Auths
<1>2. /\ call' \in [Procs -> Calls] /\ call'["login"] = Fetch("login", None)
      /\ \A q \in Procs \ {"login"} : call'[q] = call[q]
  BY Numbers, FetchTyped DEF Login
<1>3. UNCHANGED <<live, fresh, issued, loads, spent>>
  BY DEF Login, server
<1>4. TypeOK'
  BY <1>1, <1>2, <1>3 DEF TypeOK, Auths, Calls
<1>5. Shapes'
  BY <1>2, Fields, Numbers, ClientAssumption DEF Shapes
<1>6. Quiet' /\ Known'
  BY <1>1, <1>2, <1>3, Fields, Numbers DEF Quiet, Known, None
<1>7. Unseen'
  BY <1>1, <1>2, <1>3, Fields DEF Unseen
<1>8. LoggedOut' /\ Restoring'
  BY <1>1, <1>2, Fields, Numbers DEF LoggedOut, Restoring, Calling
<1>9. Exchanging' = Exchanging
  BY <1>1, <1>2, Numbers DEF Exchanging
<1>10. Presented' /\ Held' /\ OncePerToken'
  BY <1>1, <1>2, <1>3, <1>9, Fields, Numbers DEF Presented, Held, OncePerToken, Calling
<1> QED BY <1>4, <1>5, <1>6, <1>7, <1>8, <1>10

LEMMA LogoutKeepsIInv == IInv /\ Logout => IInv'
<1> SUFFICES ASSUME IInv, Logout PROVE IInv'
  OBVIOUS
<1> USE DEF IInv
<1>1. auth.refresh \in Tokens \cup {None} /\ auth' = Cleared
  BY Numbers DEF Logout, Auths
<1>2. /\ call' \in [Procs -> Calls] /\ \A q \in Procs \ {"logout"} : call'[q] = call[q]
      /\ \/ call'["logout"] = call["logout"]
         \/ auth.refresh # None /\ call'["logout"] = Fetch("logout", auth.refresh)
  BY <1>1, Numbers, FetchTyped DEF Logout
<1>3. Shapes'
  BY <1>2, Fields, Numbers, ClientAssumption DEF Shapes
<1>4. /\ \A q \in Procs : call'[q].new # None => call'[q] = call[q]
      /\ \A q \in Procs : call'[q] = call[q] \/ call'[q] = Fetch("logout", auth.refresh)
  BY <1>2, Fields
<1> QED BY <1>1, <1>2, <1>3, <1>4, ClearingKeepsIInv DEF Logout, server

LEMMA ServeLogoutKeepsIInv == IInv /\ ServeLogout => IInv'
<1> SUFFICES ASSUME IInv, ServeLogout PROVE IInv'
  OBVIOUS
<1> USE DEF IInv
<1> DEFINE t == call["logout"].tok
<1>1. PICK resp \in {"ok", "401"} : Answer("logout", resp, None)
  BY DEF ServeLogout
<1>2. /\ call' \in [Procs -> Calls]
      /\ call'["logout"].pc = "logout" /\ call'["logout"].tok = t
      /\ call'["logout"].resp = resp /\ call'["logout"].new = None
      /\ \A q \in Procs \ {"logout"} : call'[q] = call[q]
  BY <1>1, Numbers, AnswerFields DEF ServeLogout
<1>3. /\ live' = live \ {t} /\ call["logout"].pc = "logout" /\ t # auth.refresh
      /\ UNCHANGED <<auth, fresh, issued, loads, spent>>
  BY DEF ServeLogout, LoggedOut
<1>4. \A q \in Procs : /\ call'[q].pc = call[q].pc /\ call'[q].tok = call[q].tok
                       /\ call'[q].new # None => call'[q] = call[q]
  BY <1>2, <1>3
<1>5. TypeOK'
  BY <1>2, <1>3 DEF TypeOK, Calls
<1>6. Shapes'
  BY <1>2, <1>3, <1>4, Numbers DEF Shapes
<1>7. Quiet' /\ Known'
  BY <1>2, <1>3, Fields, Numbers DEF Quiet, Known, None
<1>8. Unseen'
  <2>1. ASSUME NEW p \in Procs, call'[p].new # None PROVE call'[p].new \in live'
    BY <1>3, <1>4, <2>1, Numbers DEF Unseen
  <2> QED BY <1>2, <1>3, <1>4, <2>1 DEF Unseen
<1>9. LoggedOut' /\ Restoring'
  BY <1>3, <1>4, Numbers DEF LoggedOut, Restoring
<1>10. Exchanging' = Exchanging
  BY <1>3, <1>4, Numbers DEF Exchanging
<1>11. Presented' /\ Held' /\ OncePerToken'
  BY <1>3, <1>4, <1>10, Numbers DEF Presented, Held, OncePerToken
<1> QED BY <1>5, <1>6, <1>7, <1>8, <1>9, <1>11

LEMMA ServeKeepsIInv ==
  ASSUME IInv, NEW p \in Procs, ServeLogin \/ Serve(p) \/ Lose(p)
  PROVE  IInv'
<1> USE DEF server
<1>1. "login" \in Procs
  BY DEF Procs
<1>2. CASE ServeLogin
  <2>1. CASE Issue("login", {})
    BY <1>1, <1>2, <2>1, IssueKeepsIInv DEF ServeLogin
  <2>2. CASE Answer("login", "401", None) /\ UNCHANGED server
    BY <1>1, <1>2, <2>2, EmptyAnswerKeepsIInv DEF ServeLogin
  <2> QED BY <1>2, <2>1, <2>2 DEF ServeLogin
<1>3. CASE ServeRefresh(p)
  <2>1. CASE Issue(p, {call[p].tok})
    BY <1>3, <2>1, IssueKeepsIInv DEF ServeRefresh
  <2>2. CASE Answer(p, "401", None) /\ UNCHANGED server
    BY <1>3, <2>2, EmptyAnswerKeepsIInv DEF ServeRefresh
  <2> QED BY <1>3, <2>1, <2>2 DEF ServeRefresh
<1>4. CASE ServeCall(p)
  <2>1. PICK resp \in {"ok", "401"} : Answer(p, resp, None)
    BY <1>4 DEF ServeCall
  <2> QED BY <1>4, <2>1, EmptyAnswerKeepsIInv DEF ServeCall
<1>5. CASE Lose(p)
  BY <1>5, EmptyAnswerKeepsIInv DEF Lose
<1> QED BY <1>2, <1>3, <1>4, <1>5 DEF Serve

LEMMA ExpireKeepsIInv == ASSUME IInv, NEW t \in Tokens, ExpireAccess(t) PROVE IInv'
<1> USE DEF IInv
<1>1. TypeOK'
  BY DEF ExpireAccess, TypeOK
<1> QED BY <1>1 DEF ExpireAccess, Shapes, Quiet, Known, Unseen, LoggedOut, Restoring, Exchanging,
                    Presented, Held, OncePerToken

\* A page at rest has no call under way.
LEMMA NotIdle ==
  ASSUME IInv, NEW p \in Procs, call[p].pc # "idle"
  PROVE  auth.status # "idle"
  BY Fields DEF IInv, Quiet

LEMMA AskKeepsIInv == ASSUME IInv, NEW q \in Queries, Ask(q) PROVE IInv'
<1>1. q \in Procs /\ q \notin {"restore", "login", "logout", "refresher"}
  BY ClientAssumption DEF Procs
<1>2. auth.access \in Tokens \cup {None} /\ auth.access <= issued
  BY Numbers DEF IInv, TypeOK, Auths, Known, None
<1> DEFINE c == Fetch("call", auth.access)
<1>3. c \in Calls /\ c.new = None /\ c.tok <= issued /\ c.pc \in Calling
  BY <1>2, FetchTyped, Fields DEF Calling
<1>4. /\ call' = [call EXCEPT ![q] = c] /\ call[q].pc = "idle" /\ auth.status = "authenticated"
      /\ UNCHANGED <<auth, live, fresh, issued, loads, spent>>
  BY DEF Ask, server
<1> HIDE DEF c
<1> QED BY <1>1, <1>3, <1>4, PageStepKeepsIInv

\* Whose call can be one of request().
LEMMA Requesters ==
  ASSUME IInv, NEW p \in Procs, call[p].pc \in Calling
  PROVE  p \in {"login", "restore"} \cup Queries
  BY DEF IInv, Shapes, Procs, Calling

LEMMA ThrowKeepsIInv ==
  ASSUME IInv, NEW p \in Procs, Throw(p),
         \/ call[p].pc \in Calling
         \/ p \in {"login", "restore"} /\ call[p].pc \in {"login", "refresh"}
  PROVE  IInv'
<1> USE DEF Throw, server
<1>1. p \in {"login", "restore"} \cup Queries /\ auth.status # "idle"
  BY Requesters, NotIdle DEF Calling
<1>2. CASE p \in Queries
  <2>1. p # "refresher" /\ p # "logout" /\ p \notin {"login", "restore"}
    BY <1>2, ClientAssumption
  <2>2. Idle.tok <= issued
    BY Fields, Numbers DEF IInv, None
  <2> QED BY <1>1, <1>2, <2>1, <2>2, Fields, PageStepKeepsIInv
<1>3. CASE p \notin Queries
  <2>1. call' \in [Procs -> Calls] /\ call'[p] = Idle /\ \A q \in Procs \ {p} : call'[q] = call[q]
    BY Fields, Numbers DEF IInv
  <2>2. Shapes'
    BY <2>1, Fields, Numbers DEF IInv, Shapes
  <2>3. /\ \A q \in Procs : call'[q].new # None => call'[q] = call[q]
        /\ \A q \in Procs : call'[q] = call[q] \/ call'[q] = Idle
    BY <2>1, Fields
  <2> QED BY <1>3, <2>1, <2>2, <2>3, ClearingKeepsIInv
<1> QED BY <1>2, <1>3

LEMMA CallReturnsKeepsIInv == ASSUME IInv, NEW p \in Procs, CallReturns(p) PROVE IInv'
<1> USE DEF server
<1>1. p \in {"login", "restore"} \cup Queries /\ auth.status # "idle" /\ call[p].pc \in Calling
  BY Requesters, NotIdle DEF CallReturns, Calling
<1>2. CASE p \in Queries
  <2>1. p # "refresher" /\ p # "logout"
    BY <1>2, ClientAssumption
  <2>2. Idle.tok <= issued
    BY Fields, Numbers DEF IInv, None
  <2> QED BY <1>1, <1>2, <2>1, <2>2, Fields, PageStepKeepsIInv DEF CallReturns
<1>3. CASE p \notin Queries
  <2> USE DEF IInv
  <2>1. call' \in [Procs -> Calls] /\ call'[p] = Idle /\ \A q \in Procs \ {p} : call'[q] = call[q]
    BY Fields, Numbers DEF CallReturns
  <2>2. /\ auth' \in Auths /\ auth'.status = "authenticated" /\ auth'.refresh = auth.refresh
        /\ auth'.access = auth.access
    BY <1>3, Numbers DEF CallReturns, Auths
  <2>3. UNCHANGED <<live, fresh, issued, loads, spent>>
    BY DEF CallReturns
  <2>4. TypeOK'
    BY <2>1, <2>2, <2>3 DEF TypeOK, Auths, Calls
  <2>5. Shapes'
    BY <2>1, Fields, Numbers DEF Shapes
  <2>6. Quiet' /\ Known'
    BY <2>1, <2>2, <2>3, Fields, Numbers DEF Quiet, Known, None
  <2>7. Unseen'
    BY <2>1, <2>2, <2>3, Fields DEF Unseen
  <2>8. LoggedOut' /\ Restoring'
    BY <1>1, <2>1, <2>2, Fields, Numbers DEF LoggedOut, Restoring
  <2>9. Exchanging' = Exchanging
    BY <1>1, <1>3, <2>1, <2>2, Numbers DEF Exchanging
  <2>10. Presented' /\ OncePerToken'
    BY <1>1, <2>1, <2>2, <2>3, <2>9, Numbers DEF Presented, OncePerToken, Calling
  <2>11. Held'
    BY <1>1, <1>3, <2>2, <2>3, <2>9 DEF Held
  <2> QED BY <2>4, <2>5, <2>6, <2>7, <2>8, <2>10, <2>11
<1> QED BY <1>2, <1>3

\* A denied request starts the shared refresh.
LEMMA StartRefreshKeepsIInv ==
  ASSUME IInv, NEW p \in Procs, call[p].pc = "call", call["refresher"].pc = "idle",
         auth.refresh # None, Present(auth.refresh),
         call' = [call EXCEPT ![p] = Fetch("wait", None),
                              !["refresher"] = Fetch("refresh", auth.refresh)],
         UNCHANGED <<auth, live, fresh, issued, loads>>
  PROVE  IInv'
<1> USE DEF IInv
<1> DEFINE t == auth.refresh
<1>1. t \in Tokens /\ t <= issued
  BY Numbers DEF Auths, Known
<1>2. call[p].pc \in Calling /\ p \in {"login", "restore"} \cup Queries /\ p # "refresher"
  BY Requesters, ClientAssumption DEF Calling
<1>3. /\ call' \in [Procs -> Calls] /\ call'[p] = Fetch("wait", None)
      /\ call'["refresher"] = Fetch("refresh", t)
      /\ \A q \in Procs \ {p, "refresher"} : call'[q] = call[q]
  BY <1>1, <1>2, Numbers, FetchTyped
<1>4. ~ (call["restore"].pc = "refresh" /\ call["restore"].tok = t)
  BY <1>2 DEF Restoring
<1>5. spent[t] = 0
  <2>1. ~ (spent[t] > 0) /\ spent[t] \in Nat
    BY <1>1, <1>4, Numbers DEF Presented, Exchanging
  <2> QED BY <2>1
<1>6. /\ OncePerToken' /\ spent' \in [Tokens -> Nat] /\ spent'[t] = 1
      /\ \A u \in Tokens \ {t} : spent'[u] = spent[u]
  BY <1>1, <1>5, PresentKeepsOnce
<1>7. TypeOK'
  BY <1>3, <1>6 DEF TypeOK, Calls
<1>8. Shapes'
  <2>1. /\ call'[p].pc = "wait" /\ call'[p].new = None
        /\ call'["refresher"].pc = "refresh" /\ call'["refresher"].new = None
        /\ call'["refresher"].tok = t /\ call'["refresher"].resp = "none" /\ t # None
    BY <1>3, Fields
  <2>2. /\ call'["logout"] = call["logout"]
        /\ call'["restore"].pc \in {"idle", "refresh"} \cup Calling
        /\ call'["login"].pc \in {"idle", "login"} \cup Calling
        /\ \A q \in Queries : call'[q].pc \in {"idle"} \cup Calling
    <3>1. "logout" # p /\ "logout" \in Procs /\ \A q \in Queries : q \in Procs /\ q # "refresher"
      BY <1>2, Numbers, ClientAssumption
    <3>2. \A q \in Procs \ {"refresher"} : call'[q].pc = call[q].pc \/ call'[q].pc = "wait"
      BY <1>3, <2>1
    <3> QED BY <1>3, <3>1, <3>2, Numbers DEF Shapes, Calling
  <2>3. ASSUME NEW q \in Procs
        PROVE  /\ call'[q].pc \in {"refresh", "logout"} => call'[q].tok # None
               /\ call'[q].new # None <=> call'[q].pc \in {"refresh", "login"} /\ call'[q].resp = "ok"
    BY <1>3, <2>1 DEF Shapes
  <2> QED BY <2>1, <2>2, <2>3 DEF Shapes
<1>9. Quiet'
  BY <1>2, NotIdle DEF Quiet, Calling
<1>10. Known'
  BY <1>1, <1>3, <1>6, Fields, Numbers DEF Known, None
<1>11. Unseen'
  BY <1>1, <1>3, <1>6, Fields, Numbers DEF Unseen, Calls
<1>12. LoggedOut' /\ Restoring'
  BY <1>2, <1>3, <1>4, Fields, Numbers, ClientAssumption DEF LoggedOut, Restoring, Shapes
<1>13. Exchanging'
  BY <1>3, Fields DEF Exchanging
<1>14. Presented' /\ Held'
  BY <1>13 DEF Presented, Held
<1> QED BY <1>6, <1>7, <1>8, <1>9, <1>10, <1>11, <1>12, <1>14

LEMMA CallDeniedKeepsIInv == ASSUME IInv, NEW p \in Procs, CallDenied(p) PROVE IInv'
<1> USE DEF server
<1>1. /\ call[p].pc = "call" /\ call[p].pc \in Calling /\ p \in {"login", "restore"} \cup Queries
      /\ auth.status # "idle" /\ p # "refresher" /\ p # "logout"
  BY Requesters, NotIdle, ClientAssumption DEF CallDenied, Calling
<1>2. CASE call' = [call EXCEPT ![p] = Fetch("wait", None)]
           /\ UNCHANGED <<auth, server, loads, spent>>
  <2> DEFINE c == Fetch("wait", None)
  <2>1. c \in Calls /\ c.new = None /\ c.tok <= issued /\ c.pc \in Calling
    BY FetchTyped, Fields, Numbers DEF IInv, None, Calling
  <2>2. call' = [call EXCEPT ![p] = c] /\ UNCHANGED <<auth, live, fresh, issued, loads, spent>>
    BY <1>2
  <2> HIDE DEF c
  <2> QED BY <1>1, <2>1, <2>2, PageStepKeepsIInv
<1>3. CASE Throw(p)
  BY <1>1, <1>3, ThrowKeepsIInv
<1> QED BY <1>1, <1>2, <1>3, StartRefreshKeepsIInv DEF CallDenied

LEMMA TokensArriveKeepsIInv == ASSUME IInv, NEW p \in Procs, TokensArrive(p) PROVE IInv'
<1> USE DEF IInv, TokensArrive
<1> DEFINE t == call[p].new
<1>1. t # None /\ t \in Tokens /\ t <= issued
  BY Numbers DEF Shapes, Known, Calls
<1>2. /\ call' \in [Procs -> Calls] /\ call'[p] = Fetch("call", t)
      /\ \A q \in Procs \ {p} : call'[q] = call[q]
  BY <1>1, Numbers, FetchTyped
<1>3. Shapes'
  BY <1>2, Fields, Numbers, ClientAssumption DEF Shapes, Calling
<1>4. \A q \in Procs : call'[q].new # None \/ call'[q].pc \in {"refresh", "logout"} =>
                         q # p /\ call'[q] = call[q]
  BY <1>2, Fields
<1>5. \A q \in Procs : call'[q].tok <= issued
  BY <1>1, <1>2, Fields DEF Known
<1> QED BY <1>1, <1>2, <1>3, <1>4, <1>5, NewTokensKeepIInv DEF server

LEMMA RefreshSettlesKeepsIInv == IInv /\ RefreshSettles => IInv'
<1> SUFFICES ASSUME IInv, RefreshSettles PROVE IInv'
  OBVIOUS
<1> USE DEF IInv
<1> DEFINE r == call["refresher"]
<1>1. r \in Calls /\ r.pc = "refresh" /\ r.resp # "none" /\ "refresher" \in Procs
  BY Numbers DEF RefreshSettles
<1>2. CASE r.resp = "ok"
  <2>1. r.new # None /\ r.new \in Tokens /\ r.new <= issued
    BY <1>1, <1>2, Numbers DEF Shapes, Known, Calls
  <2>2. /\ \A p \in Procs : call'[p] = IF p = "refresher" THEN Idle
                                       ELSE IF call[p].pc # "wait" THEN call[p]
                                       ELSE Fetch("again", r.new)
        /\ auth' = WithTokens(r.new)
    BY <1>2 DEF RefreshSettles
  <2>3. call' \in [Procs -> Calls]
    <3>1. Fetch("again", r.new) \in Calls /\ Idle \in Calls
      BY <2>1, FetchTyped, Fields
    <3>2. \A p \in Procs : call'[p] \in Calls
      BY <2>2, <3>1, Numbers
    <3> QED BY <3>2 DEF RefreshSettles
  <2>4. Shapes'
    BY <2>2, Fields, Numbers, ClientAssumption DEF Shapes, Calling
  <2>5. \A q \in Procs : call'[q].new # None \/ call'[q].pc \in {"refresh", "logout"} =>
                           q # "refresher" /\ call'[q] = call[q]
    BY <2>2, Fields
  <2>6. \A q \in Procs : call'[q].tok <= issued
    BY <2>1, <2>2, Fields, Numbers DEF Known, None
  <2> QED BY <1>1, <2>1, <2>2, <2>3, <2>4, <2>5, <2>6, NewTokensKeepIInv DEF RefreshSettles, server
<1>3. CASE r.resp # "ok"
  <2>1. /\ \A p \in Procs : call'[p] = IF p = "refresher" THEN Idle
                                       ELSE IF call[p].pc # "wait" THEN call[p] ELSE Idle
        /\ auth' = Cleared
    BY <1>3 DEF RefreshSettles
  <2>2. call' \in [Procs -> Calls]
    <3>1. \A p \in Procs : call'[p] \in Calls
      BY <2>1, Fields, Numbers
    <3> QED BY <3>1 DEF RefreshSettles
  <2>3. Shapes'
    BY <2>1, Fields, Numbers, ClientAssumption DEF Shapes, Calling
  <2>4. /\ \A q \in Procs : call'[q].new # None => call'[q] = call[q]
        /\ \A q \in Procs : call'[q] = call[q] \/ call'[q] = Idle
    BY <2>1, Fields
  <2> QED BY <2>1, <2>2, <2>3, <2>4, ClearingKeepsIInv DEF RefreshSettles, server
<1> QED BY <1>2, <1>3

LEMMA LogoutReturnsKeepsIInv == IInv /\ LogoutReturns => IInv'
<1> SUFFICES ASSUME IInv, LogoutReturns PROVE IInv'
  OBVIOUS
<1>1. "logout" \in Procs /\ Idle.tok <= issued
  BY Fields, Numbers DEF IInv, None
<1>2. auth.status # "idle"
  BY <1>1, NotIdle DEF LogoutReturns
<1> QED BY <1>1, <1>2, Fields, PageStepKeepsIInv DEF LogoutReturns, server, Calling

LEMMA ReceiveKeepsIInv == ASSUME IInv, NEW p \in Procs, Receive(p) PROVE IInv'
<1>1. CASE SignInFails(p)
  <2>1. Throw(p)
    BY <1>1, ClientAssumption DEF SignInFails, Throw
  <2> QED BY <1>1, <2>1, ThrowKeepsIInv DEF SignInFails
<1>2. CASE CallFails(p)
  BY <1>2, ThrowKeepsIInv DEF CallFails, Calling
<1> QED BY <1>1, <1>2, TokensArriveKeepsIInv, CallReturnsKeepsIInv, CallDeniedKeepsIInv DEF Receive

LEMMA NextKeepsIInv == IInv /\ [Next]_vars => IInv'
<1> SUFFICES ASSUME IInv, [Next]_vars PROVE IInv'
  OBVIOUS
<1>1. CASE Load \/ Restore \/ Login \/ Logout
  BY <1>1, LoadKeepsIInv, RestoreKeepsIInv, LoginKeepsIInv, LogoutKeepsIInv
<1>2. CASE \E q \in Queries : Ask(q)
  BY <1>2, AskKeepsIInv
<1>3. CASE ServeLogin \/ ServeLogout
  <2>1. "login" \in Procs
    BY DEF Procs
  <2> QED BY <1>3, <2>1, ServeKeepsIInv, ServeLogoutKeepsIInv
<1>4. CASE \E p \in Procs : Serve(p) \/ Lose(p) \/ Receive(p)
  BY <1>4, ServeKeepsIInv, ReceiveKeepsIInv
<1>5. CASE \E t \in Tokens : ExpireAccess(t)
  BY <1>5, ExpireKeepsIInv
<1>6. CASE RefreshSettles \/ LogoutReturns
  BY <1>6, RefreshSettlesKeepsIInv, LogoutReturnsKeepsIInv
<1>7. CASE UNCHANGED vars
  BY <1>7 DEF vars, IInv, TypeOK, Shapes, Quiet, Known, Unseen, LoggedOut, Restoring, Exchanging,
              Presented, Held, OncePerToken
<1> QED BY <1>1, <1>2, <1>3, <1>4, <1>5, <1>6, <1>7 DEF Next

-----------------------------------------------------------------------------
(* The theorems.                                                           *)

\* The inductive invariant holds of every page.
THEOREM Invariance == Spec => []IInv
  BY InitIInv, NextKeepsIInv, PTL DEF Spec

\* A signed-in page holds a refresh token that the server accepts, or is
\* exchanging it, whatever is lost, expires or is asked at once
\* (services/api.ts performRefresh, store/authStore.ts).
THEOREM ClientInLockstep == Spec => []Lockstep
<1>1. IInv => Lockstep
  BY DEF IInv, Held, Exchanging, Lockstep
<1> QED BY Invariance, <1>1, PTL

\* A page load presents no refresh token twice (refreshPromise of
\* services/api.ts, restoreSession of store/authStore.ts).
THEOREM TokensPresentedOnce == Spec => []OncePerToken
<1>1. IInv => OncePerToken
  BY DEF IInv
<1> QED BY Invariance, <1>1, PTL
=============================================================================
