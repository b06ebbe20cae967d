---------------------------- MODULE AccessProofs ----------------------------
(***************************************************************************)
(* What stands in front of every route: accounts with their refresh tokens *)
(* (AuthTokens) and the rate limits (RateLimiter).                         *)
(*                                                                         *)
(* The first part is the safety of accounts and refresh tokens for any     *)
(* number of users, tokens and concurrent requests.  The strengthening     *)
(* (Flight) says what a request that stands between two repository calls   *)
(* may still rely on.                                                      *)
(*                                                                         *)
(* The second part is the token bucket's limit for every capacity, period, *)
(* clock and number of requests.  The window bound is not inductive: what  *)
(* is, is that the tokens left plus the requests admitted since the i-th   *)
(* one never exceed a full bucket plus the refill since then (Budget).     *)
(***************************************************************************)
EXTENDS AuthTokens, RateLimiter, TLAPS


\* What is true of a request between its repository calls.
Flight ==
  \A r \in Requests :
    /\ req[r].pc = "idle" => req[r].tok = None /\ r \notin spent \cup shut
    /\ req[r].pc \in {"by_name", "by_email", "insert", "find"} =>
         req[r].user \in Users /\ req[r].tok = None
    /\ req[r].pc \in {"read", "user", "revoke"} => req[r].tok \in Stored
    /\ req[r].pc = "user" => req[r].user = owner[req[r].tok]
    /\ req[r].pc = "revoke" => req[r].user = owner[req[r].tok]
    /\ req[r].pc = "store" => req[r].user \in Users
    /\ req[r].pc = "store" /\ req[r].tok # None =>
         req[r].tok \in revoked /\ req[r].user = owner[req[r].tok]
    /\ req[r].pc = "reply" => req[r].new \in Stored
    /\ req[r].pc # "done" => req[r].answer = "none"
    /\ req[r].pc \notin {"reply", "done"} => req[r].new = None
    /\ req[r].answer = "created" => req[r].user \in Registered

\* A request that came in too late never gets past its checks.
TooLate ==
  /\ \A r \in spent : req[r].pc \in {"read", "done"} /\ req[r].tok \in revoked
  /\ \A r \in shut :
       /\ req[r].pc \notin {"idle", "store", "reply"}
       /\ req[r].pc = "revoke" => req[r].op # "refresh"
       /\ req[r].pc = "find" => account[req[r].user] = "inactive"
       /\ req[r].pc = "read" => account[owner[req[r].tok]] = "inactive"
       /\ req[r].pc = "user" => account[req[r].user] = "inactive"

IInv ==
  /\ TypeOK
  /\ Flight
  /\ TooLate
  /\ RotationSafe
  /\ SpentIsRefused
  /\ InactiveGetsNothing
  /\ SignUpUnique

LEMMA InitIInv == Init => IInv
<1> SUFFICES ASSUME Init PROVE IInv
  OBVIOUS
<1> USE AuthAssumption DEF Init, Idle
<1>1. TypeOK
  BY DEF TypeOK, Points, Answers
<1>2. Flight /\ TooLate
  BY DEF Flight, TooLate
<1>3. RotationSafe /\ SpentIsRefused /\ InactiveGetsNothing /\ SignUpUnique
  BY DEF RotationSafe, SpentIsRefused, InactiveGetsNothing, SignUpUnique
<1> QED BY <1>1, <1>2, <1>3 DEF IInv

LEMMA ArriveUserKeepsIInv ==
  ASSUME IInv, NEW r \in Requests, NEW u \in Users, NEW op \in Ops, ArriveUser(r, u, op)
  PROVE  IInv'
<1> USE AuthAssumption DEF ArriveUser, tables, Goto, End, IInv, TypeOK
<1>1. TypeOK'
  BY DEF Points, Answers
<1>2. Flight'
  BY DEF Flight, Stored, Registered, RotationSafe, Points, Answers
<1>3. TooLate'
  BY DEF TooLate, Flight, Stored, Points, Answers
<1>4. RotationSafe'
  BY DEF RotationSafe, Flight, Stored
<1>5. SpentIsRefused' /\ InactiveGetsNothing'
  BY DEF SpentIsRefused, InactiveGetsNothing, TooLate, Flight, Points, Answers
<1>6. SignUpUnique'
  BY DEF SignUpUnique, Flight, Registered, Clashes
<1> QED BY <1>1, <1>2, <1>3, <1>4, <1>5, <1>6 DEF IInv

LEMMA ArriveTokenKeepsIInv ==
  ASSUME IInv, NEW r \in Requests, NEW t \in Tokens, NEW op \in Ops, ArriveToken(r, t, op)
  PROVE  IInv'
<1> USE AuthAssumption DEF ArriveToken, tables, Goto, End, IInv, TypeOK
<1>1. TypeOK'
  BY DEF Points, Answers
<1>2. Flight'
  BY DEF Flight, Stored, Registered, RotationSafe, Points, Answers
<1>3. TooLate'
  BY DEF TooLate, Flight, Stored, Points, Answers
<1>4. RotationSafe'
  BY DEF RotationSafe, Flight, Stored
<1>5. SpentIsRefused' /\ InactiveGetsNothing'
  BY DEF SpentIsRefused, InactiveGetsNothing, TooLate, Flight, Points, Answers
<1>6. SignUpUnique'
  BY DEF SignUpUnique, Flight, Registered, Clashes
<1> QED BY <1>1, <1>2, <1>3, <1>4, <1>5, <1>6 DEF IInv

LEMMA LookUpNameKeepsIInv ==
  ASSUME IInv, NEW r \in Requests, LookUpName(r)
  PROVE  IInv'
<1> USE AuthAssumption DEF LookUpName, tables, Goto, End, IInv, TypeOK
<1>1. TypeOK'
  BY DEF Points, Answers
<1>2. Flight'
  BY DEF Flight, Stored, Registered, RotationSafe, Points, Answers
<1>3. TooLate'
  BY DEF TooLate, Flight, Stored, Points, Answers
<1>4. RotationSafe'
  BY DEF RotationSafe, Flight, Stored
<1>5. SpentIsRefused' /\ InactiveGetsNothing'
  BY DEF SpentIsRefused, InactiveGetsNothing, TooLate, Flight, Points, Answers
<1>6. SignUpUnique'
  BY DEF SignUpUnique, Flight, Registered, Clashes
<1> QED BY <1>1, <1>2, <1>3, <1>4, <1>5, <1>6 DEF IInv

LEMMA LookUpEmailKeepsIInv ==
  ASSUME IInv, NEW r \in Requests, LookUpEmail(r)
  PROVE  IInv'
<1> USE AuthAssumption DEF LookUpEmail, tables, Goto, End, IInv, TypeOK
<1>1. TypeOK'
  BY DEF Points, Answers
<1>2. Flight'
  BY DEF Flight, Stored, Registered, RotationSafe, Points, Answers
<1>3. TooLate'
  BY DEF TooLate, Flight, Stored, Points, Answers
<1>4. RotationSafe'
  BY DEF RotationSafe, Flight, Stored
<1>5. SpentIsRefused' /\ InactiveGetsNothing'
  BY DEF SpentIsRefused, InactiveGetsNothing, TooLate, Flight, Points, Answers
<1>6. SignUpUnique'
  BY DEF SignUpUnique, Flight, Registered, Clashes
<1> QED BY <1>1, <1>2, <1>3, <1>4, <1>5, <1>6 DEF IInv

LEMMA InsertUserKeepsIInv ==
  ASSUME IInv, NEW r \in Requests, InsertUser(r)
  PROVE  IInv'
<1> USE AuthAssumption DEF InsertUser, tables, Goto, End, IInv, TypeOK
<1>1. TypeOK'
  BY DEF Points, Answers
<1>2. Flight'
  BY DEF Flight, Stored, Registered, RotationSafe, Points, Answers
<1>3. TooLate'
  BY DEF TooLate, Flight, Stored, Points, Answers
<1>4. RotationSafe'
  BY DEF RotationSafe, Flight, Stored
<1>5. SpentIsRefused' /\ InactiveGetsNothing'
  BY DEF SpentIsRefused, InactiveGetsNothing, TooLate, Flight, Points, Answers
<1>6. SignUpUnique'
  BY DEF SignUpUnique, Flight, Registered, Clashes
<1> QED BY <1>1, <1>2, <1>3, <1>4, <1>5, <1>6 DEF IInv

LEMMA AuthenticateKeepsIInv ==
  ASSUME IInv, NEW r \in Requests, NEW password_ok \in BOOLEAN, Authenticate(r, password_ok)
  PROVE  IInv'
<1> USE AuthAssumption DEF Authenticate, tables, Goto, End, IInv, TypeOK
<1>1. TypeOK'
  BY DEF Points, Answers
<1>2. Flight'
  BY SMTT(30) DEF Flight, Stored, Registered, RotationSafe, Points, Answers
<1>3. TooLate'
  BY DEF TooLate, Flight, Stored, Points, Answers
<1>4. RotationSafe'
  BY DEF RotationSafe, Flight, Stored
<1>5. SpentIsRefused' /\ InactiveGetsNothing'
  BY SMTT(30) DEF SpentIsRefused, InactiveGetsNothing, TooLate, Flight, Points, Answers
<1>6. SignUpUnique'
  BY DEF SignUpUnique, Flight, Registered, Clashes
<1> QED BY <1>1, <1>2, <1>3, <1>4, <1>5, <1>6 DEF IInv

LEMMA ReadTokenKeepsIInv ==
  ASSUME IInv, NEW r \in Requests, ReadToken(r)
  PROVE  IInv'
<1> USE AuthAssumption DEF ReadToken, tables, Goto, End, IInv, TypeOK
<1>1. TypeOK'
  BY DEF Points, Answers
<1>2. Flight'
  BY DEF Flight, Stored, Registered, RotationSafe, Points, Answers
<1>3. TooLate'
  BY DEF TooLate, Flight, Stored, Points, Answers
<1>4. RotationSafe'
  BY DEF RotationSafe, Flight, Stored
<1>5. SpentIsRefused' /\ InactiveGetsNothing'
  BY DEF SpentIsRefused, InactiveGetsNothing, TooLate, Flight, Points, Answers
<1>6. SignUpUnique'
  BY DEF SignUpUnique, Flight, Registered, Clashes
<1> QED BY <1>1, <1>2, <1>3, <1>4, <1>5, <1>6 DEF IInv

LEMMA ReadUserKeepsIInv ==
  ASSUME IInv, NEW r \in Requests, ReadUser(r)
  PROVE  IInv'
<1> USE AuthAssumption DEF ReadUser, tables, Goto, End, IInv, TypeOK
<1>1. TypeOK'
  BY DEF Points, Answers
<1>2. Flight'
  BY DEF Flight, Stored, Registered, RotationSafe, Points, Answers
<1>3. TooLate'
  <2>1. /\ req[r].pc = "user" /\ spent' = spent /\ shut' = shut /\ revoked' = revoked
        /\ account' = account /\ owner' = owner
        /\ \A s \in Requests \ {r} : req'[s] = req[s]
    OBVIOUS
  <2>2. r \notin spent
    BY <2>1 DEF TooLate
  <2>3. r \in shut => req'[r].pc = "done"
    BY <2>1 DEF TooLate
  <2> QED BY <2>1, <2>2, <2>3 DEF TooLate
<1>4. RotationSafe'
  BY DEF RotationSafe, Flight, Stored
<1>5. SpentIsRefused' /\ InactiveGetsNothing'
  BY DEF SpentIsRefused, InactiveGetsNothing, TooLate, Flight, Points, Answers
<1>6. SignUpUnique'
  BY DEF SignUpUnique, Flight, Registered, Clashes
<1> QED BY <1>1, <1>2, <1>3, <1>4, <1>5, <1>6 DEF IInv

LEMMA RevokeTokenKeepsIInv ==
  ASSUME IInv, NEW r \in Requests, RevokeToken(r)
  PROVE  IInv'
<1> USE AuthAssumption DEF RevokeToken, tables, Goto, End, IInv, TypeOK
<1>1. TypeOK'
  BY DEF Points, Answers, Flight, Stored
<1>2. Flight'
  BY DEF Flight, Stored, Registered, RotationSafe, Points, Answers
<1>3. TooLate'
  BY DEF TooLate, Flight, Stored, Points, Answers
<1>4. RotationSafe'
  BY DEF RotationSafe, Flight, Stored
<1>5. SpentIsRefused' /\ InactiveGetsNothing'
  BY DEF SpentIsRefused, InactiveGetsNothing, TooLate, Flight, Points, Answers
<1>6. SignUpUnique'
  BY DEF SignUpUnique, Flight, Registered, Clashes
<1> QED BY <1>1, <1>2, <1>3, <1>4, <1>5, <1>6 DEF IInv

LEMMA StoreTokenKeepsIInv ==
  ASSUME IInv, NEW r \in Requests, NEW t \in Tokens, StoreToken(r, t)
  PROVE  IInv'
<1> USE AuthAssumption DEF StoreToken, tables, Goto, End, IInv, TypeOK
<1>1. TypeOK'
  BY DEF Points, Answers
<1>2. Flight'
  BY DEF Flight, Stored, Registered, RotationSafe, Points, Answers
<1>3. TooLate'
  BY DEF TooLate, Flight, Stored, Points, Answers
<1>4. RotationSafe'
  BY DEF RotationSafe, Flight, Stored
<1>5. SpentIsRefused' /\ InactiveGetsNothing'
  BY DEF SpentIsRefused, InactiveGetsNothing, TooLate, Flight, Points, Answers
<1>6. SignUpUnique'
  BY DEF SignUpUnique, Flight, Registered, Clashes
<1> QED BY <1>1, <1>2, <1>3, <1>4, <1>5, <1>6 DEF IInv

LEMMA ReplyKeepsIInv ==
  ASSUME IInv, NEW r \in Requests, Reply(r)
  PROVE  IInv'
<1> USE AuthAssumption DEF Reply, tables, Goto, End, IInv, TypeOK
<1>1. TypeOK'
  BY DEF Points, Answers, Flight, Stored
<1>2. Flight'
  BY DEF Flight, Stored, Registered, RotationSafe, Points, Answers
<1>3. TooLate'
  BY DEF TooLate, Flight, Stored, Points, Answers
<1>4. RotationSafe'
  BY DEF RotationSafe, Flight, Stored
<1>5. SpentIsRefused' /\ InactiveGetsNothing'
  BY DEF SpentIsRefused, InactiveGetsNothing, TooLate, Flight, Points, Answers
<1>6. SignUpUnique'
  BY DEF SignUpUnique, Flight, Registered, Clashes
<1> QED BY <1>1, <1>2, <1>3, <1>4, <1>5, <1>6 DEF IInv

LEMMA DieKeepsIInv ==
  ASSUME IInv, NEW r \in Requests, Die(r)
  PROVE  IInv'
<1> USE AuthAssumption DEF Die, tables, Goto, End, IInv, TypeOK
<1>1. TypeOK'
  <2>1. "done" \in Points /\ "lost" \in Answers
    BY DEF Points, Answers
  <2>2. req' = [req EXCEPT ![r] = [@ EXCEPT !.pc = "done", !.answer = "lost"]]
    OBVIOUS
  <2>3. req' \in [Requests -> [op : Ops \cup {"none"}, pc : Points,
                              user : Users \cup {None}, tok : Tokens \cup {None},
                              new : Tokens \cup {None}, answer : Answers]]
    BY <2>1, <2>2, SMTT(30)
  <2> QED BY <2>3
<1>2. Flight'
  BY DEF Flight, Stored, Registered, RotationSafe, Points, Answers
<1>3. TooLate'
  BY DEF TooLate, Flight, Stored, Points, Answers
<1>4. RotationSafe'
  BY DEF RotationSafe, Flight, Stored
<1>5. SpentIsRefused' /\ InactiveGetsNothing'
  BY DEF SpentIsRefused, InactiveGetsNothing, TooLate, Flight, Points, Answers
<1>6. SignUpUnique'
  BY DEF SignUpUnique, Flight, Registered, Clashes
<1> QED BY <1>1, <1>2, <1>3, <1>4, <1>5, <1>6 DEF IInv

LEMMA DeactivateKeepsIInv ==
  ASSUME IInv, NEW u \in Users, Deactivate(u)
  PROVE  IInv'
<1> USE AuthAssumption DEF Deactivate, tables, Goto, End, IInv, TypeOK
<1>1. TypeOK'
  BY DEF Points, Answers
<1>2. Flight'
  BY DEF Flight, Stored, Registered, RotationSafe, Points, Answers
<1>3. TooLate'
  BY DEF TooLate, Flight, Stored, Points, Answers
<1>4. RotationSafe'
  BY DEF RotationSafe, Flight, Stored
<1>5. SpentIsRefused' /\ InactiveGetsNothing'
  BY DEF SpentIsRefused, InactiveGetsNothing, TooLate, Flight, Points, Answers
<1>6. SignUpUnique'
  BY DEF SignUpUnique, Flight, Registered, Clashes
<1> QED BY <1>1, <1>2, <1>3, <1>4, <1>5, <1>6 DEF IInv

LEMMA ExpireKeepsIInv ==
  ASSUME IInv, NEW t \in Tokens, Expire(t)
  PROVE  IInv'
<1> USE AuthAssumption DEF Expire, tables, Goto, End, IInv, TypeOK
<1>1. TypeOK'
  BY DEF Points, Answers
<1>2. Flight'
  BY DEF Flight, Stored, Registered, RotationSafe, Points, Answers
<1>3. TooLate'
  BY DEF TooLate, Flight, Stored, Points, Answers
<1>4. RotationSafe'
  BY DEF RotationSafe, Flight, Stored
<1>5. SpentIsRefused' /\ InactiveGetsNothing'
  BY DEF SpentIsRefused, InactiveGetsNothing, TooLate, Flight, Points, Answers
<1>6. SignUpUnique'
  BY DEF SignUpUnique, Flight, Registered, Clashes
<1> QED BY <1>1, <1>2, <1>3, <1>4, <1>5, <1>6 DEF IInv

\* What holds between the repository calls of all requests, always.
THEOREM Invariance == Spec => []IInv
<1>1. IInv /\ UNCHANGED vars => IInv'
  BY DEF IInv, TypeOK, Flight, TooLate, RotationSafe, SpentIsRefused, InactiveGetsNothing,
         SignUpUnique, Stored, Registered, vars
<1>2. ASSUME IInv, NEW r \in Requests, RequestStep(r)
      PROVE  IInv'
  BY <1>2, LookUpNameKeepsIInv, LookUpEmailKeepsIInv, InsertUserKeepsIInv, AuthenticateKeepsIInv,
     ReadTokenKeepsIInv, ReadUserKeepsIInv, RevokeTokenKeepsIInv, StoreTokenKeepsIInv,
     ReplyKeepsIInv DEF RequestStep
<1>3. IInv /\ [Next]_vars => IInv'
  BY <1>1, <1>2, ArriveUserKeepsIInv, ArriveTokenKeepsIInv, DieKeepsIInv, DeactivateKeepsIInv,
     ExpireKeepsIInv DEF Next
<1> QED BY InitIInv, <1>3, PTL DEF Spec

\* A rotated token's successor exists only once it is revoked itself, wherever
\* a request may have died.
THEOREM RotationIsSafe == Spec => []RotationSafe
<1>1. IInv => RotationSafe
  BY DEF IInv
<1> QED BY Invariance, <1>1, PTL

\* A token that was spent before the request came in buys nothing.
THEOREM SpentTokensRefused == Spec => []SpentIsRefused
<1>1. IInv => SpentIsRefused
  BY DEF IInv
<1> QED BY Invariance, <1>1, PTL

\* Neither does a token of a deactivated account.
THEOREM InactiveAccountsRefused == Spec => []InactiveGetsNothing
<1>1. IInv => InactiveGetsNothing
  BY DEF IInv
<1> QED BY Invariance, <1>1, PTL

\* Names and emails stay unique under concurrent registration.
THEOREM RegistrationUnique == Spec => []SignUpUnique
<1>1. IInv => SignUpUnique
  BY DEF IInv
<1> QED BY Invariance, <1>1, PTL

-----------------------------------------------------------------------------
(* The token bucket.                                                       *)


\* t units left and m requests admitted fit a full bucket and `gap` ticks.
Within(k, t, m, gap) == t + m * Period[k] <= Full(k) + Capacity[k] * gap

Budget ==
  \A k \in Keys : \A i \in DOMAIN log[k] :
    /\ log[k][i] <= last_refill[k]
    /\ Within(k, tokens[k], Len(log[k]) - i + 1, last_refill[k] - log[k][i])

Unused ==
  \A k \in Keys \ known : log[k] = <<>> /\ promise[k] = -1

\* Until the clock is set back no bucket was refilled in the future.
ClockAhead == ~ setback => \A k \in known : last_refill[k] <= now

RateIInv == RateTypeOK /\ Unused /\ Budget /\ WindowBound /\ ClockAhead /\ RetryAfterHonest

\* Multiplication distributes, stated for the sums that occur below.
LEMMA Distribute ==
  ASSUME NEW a \in Int, NEW b \in Int, NEW c \in Int
  PROVE  c * (a + b) = c * a + c * b /\ (a + b) * c = a * c + b * c
         /\ c * (a - b) = c * a - c * b
  OBVIOUS

LEMMA ProductNat ==
  ASSUME NEW a \in Nat, NEW b \in Nat
  PROVE  a * b \in Nat
  OBVIOUS

\* A bucket after refilling is between empty and full, and its refill time
\* never moves back.
LEMMA RefillRange ==
  ASSUME RateTypeOK, NEW k \in Keys
  PROVE  /\ Full(k) \in Nat
         /\ Refilled(k) \in Nat
         /\ Refilled(k) <= Full(k)
         /\ RefilledAt(k) \in Nat
         /\ k \in known => RefilledAt(k) >= last_refill[k]
         /\ k \in known =>
              Refilled(k) <= tokens[k] + Capacity[k] * (RefilledAt(k) - last_refill[k])
<1> USE RateAssumption
<1>1. now \in Nat /\ tokens[k] \in Nat /\ last_refill[k] \in Nat /\ tokens[k] <= Full(k)
  BY DEF RateTypeOK
<1>2. Capacity[k] \in Nat \ {0} /\ Period[k] \in Nat \ {0}
  OBVIOUS
<1>3. Full(k) \in Nat
  BY <1>2, ProductNat DEF Full
<1>4. CASE k \notin known
  BY <1>1, <1>3, <1>4 DEF Refilled, RefilledAt
<1>5. CASE k \in known /\ Elapsed(k) <= 0
  BY <1>1, <1>2, <1>3, <1>5 DEF Refilled, RefilledAt, Elapsed
<1>6. CASE k \in known /\ ~ (Elapsed(k) <= 0)
  <2>1. Elapsed(k) \in Nat /\ Elapsed(k) = now - last_refill[k]
    BY <1>1, <1>6 DEF Elapsed
  <2>2. Elapsed(k) * Capacity[k] \in Nat
    BY <1>2, <2>1, ProductNat
  <2>3. Elapsed(k) * Capacity[k] = Capacity[k] * (now - last_refill[k])
    BY <1>1, <1>2, <2>1
  <2>4. RefilledAt(k) = now
    BY <1>6 DEF RefilledAt
  <2>5. Refilled(k) = IF tokens[k] + Elapsed(k) * Capacity[k] < Full(k)
                      THEN tokens[k] + Elapsed(k) * Capacity[k] ELSE Full(k)
    BY <1>6 DEF Refilled
  <2> HIDE DEF Elapsed, Refilled, Full
  <2> QED BY <1>1, <1>3, <2>1, <2>2, <2>3, <2>4, <2>5
<1> QED BY <1>4, <1>5, <1>6

\* RetryAfter ticks bring at least what is missing.
LEMMA RetryAfterEnough ==
  ASSUME NEW k \in Keys, NEW have \in Nat, have < Period[k]
  PROVE  /\ RetryAfter(k, have) \in Nat \ {0}
         /\ have + Capacity[k] * RetryAfter(k, have) >= Period[k]
<1> DEFINE c == Capacity[k]
           m == Period[k] - have
           q == (m + c - 1) \div c
<1>1. c \in Nat \ {0} /\ Period[k] \in Nat \ {0} /\ m \in Nat \ {0}
  BY RateAssumption
<1>2. q \in Nat /\ c * q >= m
  <2> HIDE DEF c, m
  <2>1. m + c - 1 \in Nat
    BY <1>1
  <2>2. q \in Nat
    BY <2>1, <1>1
  <2>3. m + c - 1 < c * (q + 1)
    BY <2>1, <1>1
  <2>4. c * (q + 1) = c * q + c
    BY <2>2, <1>1
  <2>5. c * q \in Nat
    BY <2>2, <1>1, ProductNat
  <2> QED BY <2>2, <2>3, <2>4, <2>5, <1>1
<1>3. RetryAfter(k, have) = IF q < 1 THEN 1 ELSE q
  BY DEF RetryAfter
<1>4. CASE q < 1
  <2>1. q = 0 BY <1>2, <1>4
  <2>2. c * q = 0 BY <2>1, <1>1
  <2> QED BY <2>2, <1>1, <1>2
<1>5. CASE q >= 1
  <2> HIDE DEF q
  <2> QED BY <1>1, <1>2, <1>3, <1>5
<1> QED BY <1>2, <1>4, <1>5

\* A refill keeps the budget.
LEMMA WithinRefill ==
  ASSUME NEW k \in Keys, NEW t \in Nat, NEW m \in Int, NEW x \in Int, NEW y \in Int,
         NEW have \in Nat, NEW at \in Int, have <= t + Capacity[k] * (at - y),
         Within(k, t, m, y - x)
  PROVE  Within(k, have, m, at - x)
<1> DEFINE c == Capacity[k]
<1>1. c \in Nat /\ Period[k] \in Nat /\ Full(k) \in Nat
  BY RateAssumption, ProductNat DEF Full
<1>2. c * (y - x) + c * (at - y) = c * (at - x)
  <2>1. (y - x) + (at - y) = at - x /\ y - x \in Int /\ at - y \in Int
    OBVIOUS
  <2> QED BY <2>1, <1>1, Distribute
<1>3. c * (y - x) \in Int /\ c * (at - y) \in Int /\ m * Period[k] \in Int
  BY <1>1
<1>4. t + m * Period[k] <= Full(k) + c * (y - x) /\ have <= t + c * (at - y)
  BY DEF Within
<1> HIDE DEF c
<1>5. have + m * Period[k] <= Full(k) + c * (at - x)
  BY <1>1, <1>2, <1>3, <1>4
<1> QED BY <1>5 DEF Within, c

\* So does spending a token.
LEMMA WithinSpend ==
  ASSUME NEW k \in Keys, NEW have \in Nat, NEW m \in Int, NEW gap \in Int,
         Within(k, have, m, gap)
  PROVE  Within(k, have - Period[k], m + 1, gap)
<1>1. Period[k] \in Nat /\ Capacity[k] \in Nat /\ Full(k) \in Nat
  BY RateAssumption, ProductNat DEF Full
<1>2. (m + 1) * Period[k] = m * Period[k] + Period[k]
  <2>1. (m + 1) * Period[k] = m * Period[k] + 1 * Period[k]
    BY <1>1, 1 \in Int, Period[k] \in Int, Distribute
  <2> QED BY <2>1, <1>1
<1>3. m * Period[k] \in Int /\ Capacity[k] * gap \in Int
  BY <1>1
<1> QED BY <1>1, <1>2, <1>3 DEF Within

\* The request just admitted has a budget of its own.
LEMMA WithinNew ==
  ASSUME NEW k \in Keys, NEW have \in Nat, have <= Full(k)
  PROVE  Within(k, have - Period[k], 1, 0)
<1>1. Period[k] \in Nat /\ Capacity[k] \in Nat /\ Full(k) \in Nat
  BY RateAssumption, ProductNat DEF Full
<1>2. 1 * Period[k] = Period[k] /\ Capacity[k] * 0 = 0
  BY <1>1
<1> QED BY <1>1, <1>2 DEF Within

\* The budget bounds the number of requests.
LEMMA WithinDrop ==
  ASSUME NEW k \in Keys, NEW t \in Nat, NEW m \in Int, NEW gap \in Int,
         Within(k, t, m, gap)
  PROVE  Within(k, 0, m, gap)
<1>1. Period[k] \in Nat /\ Capacity[k] \in Nat /\ Full(k) \in Nat
  BY RateAssumption, ProductNat DEF Full
<1>2. m * Period[k] \in Int /\ Capacity[k] * gap \in Int
  BY <1>1
<1> QED BY <1>1, <1>2 DEF Within

LEMMA WindowBoundWithin ==
  ASSUME RateTypeOK
  PROVE  WindowBound <=>
           \A k \in Keys : \A i, j \in DOMAIN log[k] :
             i <= j => Within(k, 0, j - i + 1, log[k][j] - log[k][i])
<1> SUFFICES ASSUME NEW k \in Keys, NEW i \in DOMAIN log[k], NEW j \in DOMAIN log[k]
             PROVE  (j - i + 1) * Period[k] <= Full(k) + Capacity[k] * (log[k][j] - log[k][i])
                      <=> Within(k, 0, j - i + 1, log[k][j] - log[k][i])
  BY DEF WindowBound
<1>1. i \in Int /\ j \in Int /\ Period[k] \in Nat
  BY RateAssumption DEF RateTypeOK
<1>2. (j - i + 1) * Period[k] \in Int
  BY <1>1
<1>3. 0 + (j - i + 1) * Period[k] = (j - i + 1) * Period[k]
  BY <1>2
<1> QED BY <1>3 DEF Within

LEMMA AppendFacts ==
  ASSUME NEW s \in Seq(Nat), NEW x \in Nat
  PROVE  /\ Append(s, x) \in Seq(Nat)
         /\ Len(Append(s, x)) = Len(s) + 1
         /\ DOMAIN Append(s, x) = 1..(Len(s) + 1)
         /\ Append(s, x)[Len(s) + 1] = x
         /\ \A i \in 1..Len(s) : Append(s, x)[i] = s[i]
  OBVIOUS

LEMMA RateInitIInv == RateInit => RateIInv
<1> SUFFICES ASSUME RateInit PROVE RateIInv
  OBVIOUS
<1> USE RateAssumption DEF RateInit
<1>1. \A k \in Keys : Full(k) \in Nat
  BY ProductNat DEF Full
<1>2. RateTypeOK
  <2>1. tokens \in [Keys -> Nat] /\ last_refill \in [Keys -> Nat] /\ promise \in [Keys -> Int]
    OBVIOUS
  <2>2. log \in [Keys -> Seq(Nat)]
    OBVIOUS
  <2>3. ASSUME NEW k \in Keys PROVE tokens[k] <= Full(k)
    <3>1. tokens[k] = 0
      OBVIOUS
    <3> QED BY <3>1, <1>1
  <2> QED BY <2>1, <2>2, <2>3 DEF RateTypeOK
<1> QED BY <1>2 DEF RateIInv, Unused, Budget, WindowBound, ClockAhead, RetryAfterHonest

\* Only the clock moves: every bucket and every log stay as they are.
LEMMA ClockKeepsIInv == RateIInv /\ Clock => RateIInv'
<1> SUFFICES ASSUME RateIInv, Clock PROVE RateIInv'
  OBVIOUS
<1>1. /\ now' \in Times /\ setback' = IF now' < now THEN TRUE ELSE setback
      /\ known' = known /\ tokens' = tokens /\ last_refill' = last_refill
      /\ log' = log /\ promise' = promise
  BY DEF Clock
<1>2. now \in Nat /\ now' \in Nat
  BY <1>1, RateAssumption DEF RateIInv, RateTypeOK
<1>3. RateTypeOK'
  BY <1>1 DEF RateIInv, RateTypeOK, Full
<1>4. Unused' /\ Budget' /\ WindowBound'
  BY <1>1 DEF RateIInv, Unused, Budget, WindowBound, Within, Full
<1>5. ClockAhead'
  <2> SUFFICES ASSUME ~ setback', NEW k \in known' PROVE last_refill'[k] <= now'
    BY DEF ClockAhead
  <2>1. ~ setback /\ ~ (now' < now)
    BY <1>1 DEF RateIInv, RateTypeOK
  <2>2. k \in known /\ k \in Keys /\ now <= now'
    BY <1>1, <1>2, <2>1 DEF RateIInv, RateTypeOK
  <2> QED BY <1>1, <1>2, <2>1, <2>2 DEF RateIInv, ClockAhead, RateTypeOK
<1>6. RetryAfterHonest'
  BY <1>1 DEF RateIInv, RetryAfterHonest
<1> QED BY <1>3, <1>4, <1>5, <1>6 DEF RateIInv

LEMMA CheckKeepsIInv ==
  ASSUME RateIInv, NEW k \in Keys, Check(k)
  PROVE  RateIInv'
<1> DEFINE have == Refilled(k)
           at == RefilledAt(k)
           p == Period[k]
           c == Capacity[k]
           n == Len(log[k])
           allowed == have >= p
<1>1. c \in Nat \ {0} /\ p \in Nat \ {0} /\ n \in Nat
  BY RateAssumption DEF RateIInv, RateTypeOK
<1>2. /\ Full(k) \in Nat /\ have \in Nat /\ have <= Full(k) /\ at \in Nat
      /\ k \in known => at >= last_refill[k]
      /\ k \in known => have <= tokens[k] + c * (at - last_refill[k])
  BY RefillRange DEF RateIInv
<1>3. /\ now' = now /\ setback' = setback /\ known' = known \cup {k}
      /\ last_refill' = [last_refill EXCEPT ![k] = at]
      /\ allowed => /\ tokens' = [tokens EXCEPT ![k] = have - p]
                    /\ log' = [log EXCEPT ![k] = Append(log[k], at)]
                    /\ promise' = [promise EXCEPT ![k] = -1]
      /\ ~allowed => /\ tokens' = [tokens EXCEPT ![k] = have]
                     /\ log' = log
                     /\ promise' = [promise EXCEPT ![k] = now + RetryAfter(k, have)]
  BY DEF Check
<1>4. ~allowed => /\ RetryAfter(k, have) \in Nat \ {0}
                  /\ have + c * RetryAfter(k, have) >= p
  BY <1>1, <1>2, RetryAfterEnough
<1>5. now \in Nat /\ tokens \in [Keys -> Nat] /\ last_refill \in [Keys -> Nat]
      /\ log \in [Keys -> Seq(Nat)] /\ promise \in [Keys -> Int] /\ known \subseteq Keys
      /\ setback \in BOOLEAN
  BY RateAssumption DEF RateIInv, RateTypeOK
<1> HIDE DEF have, at, p, c, n
\* The other buckets.
<1>6. \A j \in Keys \ {k} : /\ tokens'[j] = tokens[j] /\ last_refill'[j] = last_refill[j]
                           /\ log'[j] = log[j] /\ promise'[j] = promise[j]
  BY <1>3, <1>5
<1>7. RateTypeOK'
  <2>1. tokens' \in [Keys -> Nat] /\ tokens'[k] <= Full(k)
    <3>1. CASE allowed
      <4>1. have - p \in Nat /\ have - p <= Full(k)
        BY <3>1, <1>1, <1>2
      <4> QED BY <3>1, <4>1, <1>3, <1>5, ZenonT(30)
    <3>2. CASE ~ allowed
      BY <3>2, <1>2, <1>3, <1>5
    <3> QED BY <3>1, <3>2
  <2>2. last_refill' \in [Keys -> Nat]
    BY <1>2, <1>3, <1>5
  <2>3. log' \in [Keys -> Seq(Nat)]
    <3>1. Append(log[k], at) \in Seq(Nat)
      BY <1>2, <1>5
    <3> QED BY <3>1, <1>3, <1>5
  <2>4. promise' \in [Keys -> Int]
    <3>1. CASE allowed
      BY <3>1, <1>3, <1>5
    <3>2. CASE ~ allowed
      <4>1. now + RetryAfter(k, have) \in Int
        BY <3>2, <1>4, <1>5
      <4> QED BY <3>2, <4>1, <1>3, <1>5
    <3> QED BY <3>1, <3>2
  <2>5. \A j \in Keys : tokens'[j] <= Full(j)
    BY <1>6, <2>1 DEF RateIInv, RateTypeOK
  <2> QED BY <1>3, <1>5, <2>1, <2>2, <2>3, <2>4, <2>5 DEF RateIInv, RateTypeOK, Full
<1>8. Unused'
  BY <1>3, <1>6 DEF RateIInv, Unused
<1>9. DOMAIN log[k] = 1..n /\ n = Len(log[k]) /\ \A i \in 1..n : log[k][i] \in Nat
  BY <1>5 DEF n
<1>10. allowed => Len(log'[k]) = n + 1 /\ DOMAIN log'[k] = 1..(n + 1)
                  /\ log'[k][n + 1] = at /\ \A i \in 1..n : log'[k][i] = log[k][i]
  <2> SUFFICES ASSUME allowed
               PROVE  Len(log'[k]) = n + 1 /\ DOMAIN log'[k] = 1..(n + 1)
                      /\ log'[k][n + 1] = at /\ \A i \in 1..n : log'[k][i] = log[k][i]
    OBVIOUS
  <2>1. log'[k] = Append(log[k], at)
    BY <1>3, <1>5
  <2> QED BY <2>1, <1>2, <1>5, <1>9, AppendFacts
<1>11. last_refill'[k] = at /\ (allowed => tokens'[k] = have - p) /\ (~allowed => tokens'[k] = have)
  BY <1>3, <1>5
\* The refill, before a token is spent.
<1>12. \A i \in 1..n : log[k][i] <= at /\ Within(k, have, n - i + 1, at - log[k][i])
  <2> SUFFICES ASSUME NEW i \in 1..n
               PROVE  log[k][i] <= at /\ Within(k, have, n - i + 1, at - log[k][i])
    OBVIOUS
  <2>1. k \in known
    BY <1>9 DEF RateIInv, Unused
  <2>2. log[k][i] <= last_refill[k] /\ Within(k, tokens[k], n - i + 1, last_refill[k] - log[k][i])
    BY <1>9 DEF RateIInv, Budget
  <2>3. log[k][i] \in Nat /\ last_refill[k] \in Nat /\ tokens[k] \in Nat /\ n - i + 1 \in Int
    BY <1>1, <1>5, <1>9
  <2>4. have <= tokens[k] + Capacity[k] * (at - last_refill[k])
    BY <2>1, <1>2 DEF c
  <2> QED BY <2>1, <2>2, <2>3, <2>4, <1>2, WithinRefill
\* The token spent.
<1>13. ASSUME allowed, NEW i \in 1..(n + 1)
       PROVE  log'[k][i] \in Nat /\ log'[k][i] <= at
              /\ Within(k, have - p, n + 1 - i + 1, at - log'[k][i])
  <2>1. CASE i = n + 1
    <3>1. log'[k][i] = at
      BY <2>1, <1>10, <1>13
    <3>3. n + 1 - i + 1 = 1 /\ at - log'[k][i] = 0
      BY <2>1, <3>1, <1>1, <1>2
    <3>2. Within(k, have - p, 1, 0)
      BY <1>2, WithinNew DEF p
    <3> QED BY <3>1, <3>3, <3>2, <1>2
  <2>2. CASE i \in 1..n
    <3>1. log'[k][i] = log[k][i] /\ log[k][i] \in Nat /\ n + 1 - i + 1 = (n - i + 1) + 1
          /\ n - i + 1 \in Int /\ at - log[k][i] \in Int
      BY <2>2, <1>1, <1>2, <1>9, <1>10, <1>13
    <3>2. Within(k, have, n - i + 1, at - log[k][i])
      BY <2>2, <1>12
    <3>3. Within(k, have - p, (n - i + 1) + 1, at - log[k][i])
      BY <3>1, <3>2, <1>2, WithinSpend DEF p
    <3> QED BY <2>2, <3>1, <3>3, <1>12
  <2> QED BY <2>1, <2>2, <1>1
<1>14. Budget'
  <2> SUFFICES ASSUME NEW j \in Keys, NEW i \in DOMAIN log'[j]
               PROVE  /\ log'[j][i] <= last_refill'[j]
                      /\ Within(j, tokens'[j], Len(log'[j]) - i + 1, last_refill'[j] - log'[j][i])
    BY DEF Budget, Within, Full
  <2>1. CASE j # k
    BY <2>1, <1>6 DEF RateIInv, Budget
  <2>2. CASE j = k /\ ~ allowed
    <3>1. log'[k] = log[k] /\ i \in 1..n /\ Len(log'[k]) = n
      BY <2>2, <1>3, <1>9
    <3> QED BY <2>2, <3>1, <1>11, <1>12
  <2>3. CASE j = k /\ allowed
    <3>1. i \in 1..(n + 1) /\ Len(log'[k]) = n + 1 /\ last_refill'[k] = at /\ tokens'[k] = have - p
      BY <2>3, <1>10, <1>11
    <3>2. log'[k][i] <= at /\ Within(k, have - p, n + 1 - i + 1, at - log'[k][i])
      BY <2>3, <3>1, <1>13
    <3>3. Len(log'[j]) - i + 1 = n + 1 - i + 1 /\ last_refill'[j] - log'[j][i] = at - log'[k][i]
          /\ tokens'[j] = have - p /\ j = k /\ last_refill'[j] = at
      BY <2>3, <3>1, <1>1, <1>2
    <3> QED BY <3>2, <3>3
  <2> QED BY <2>1, <2>2, <2>3
<1>15. WindowBound'
  <2> SUFFICES ASSUME NEW j \in Keys, NEW a \in DOMAIN log'[j], NEW b \in DOMAIN log'[j], a <= b
               PROVE  (b - a + 1) * Period[j]
                        <= Full(j) + Capacity[j] * (log'[j][b] - log'[j][a])
    BY DEF WindowBound, Full
  <2>1. CASE j # k \/ ~ allowed
    <3>1. log'[j] = log[j]
      BY <2>1, <1>3, <1>6
    <3> QED BY <3>1 DEF RateIInv, WindowBound
  <2>2. CASE j = k /\ allowed
    <3>1. a \in 1..(n + 1) /\ b \in 1..(n + 1)
      BY <2>2, <1>10
    <3>2. Within(k, 0, b - a + 1, log'[k][b] - log'[k][a])
      <4>1. CASE b \in 1..n
        <5>1. a \in 1..n
          BY <4>1, <3>1, <1>1
        <5>2. RateTypeOK /\ WindowBound /\ b - a + 1 \in Int
          BY <1>1, <5>1, <4>1 DEF RateIInv
        <5>3. Within(k, 0, b - a + 1, log[k][b] - log[k][a])
          BY <4>1, <5>1, <5>2, <1>9, WindowBoundWithin
        <5> QED BY <2>2, <4>1, <5>1, <5>3, <1>10
      <4>2. CASE b = n + 1
        <5>1. log'[k][b] = at /\ log'[k][a] \in Nat
              /\ Within(k, have - p, n + 1 - a + 1, at - log'[k][a])
          BY <2>2, <3>1, <4>2, <1>10, <1>13
        <5>2. have - p \in Nat /\ n + 1 - a + 1 \in Int /\ at - log'[k][a] \in Int
          BY <2>2, <3>1, <5>1, <1>1, <1>2
        <5>3. Within(k, 0, n + 1 - a + 1, at - log'[k][a])
          BY <5>1, <5>2, WithinDrop
        <5>4. b - a + 1 = n + 1 - a + 1 /\ log'[k][b] - log'[k][a] = at - log'[k][a]
          BY <4>2, <5>1, <3>1, <1>1
        <5> QED BY <5>3, <5>4
      <4> QED BY <3>1, <4>1, <4>2, <1>1
    <3>3. (b - a + 1) * Period[k] \in Int
      BY <3>1, <1>1 DEF p
    <3>4. (b - a + 1) * Period[k] <= Full(k) + Capacity[k] * (log'[k][b] - log'[k][a])
      <4>1. 0 + (b - a + 1) * Period[k] = (b - a + 1) * Period[k]
        BY <3>3
      <4>2. 0 + (b - a + 1) * Period[k] <= Full(k) + Capacity[k] * (log'[k][b] - log'[k][a])
        BY <3>2 DEF Within
      <4> QED BY <4>1, <4>2, Zenon
    <3> QED BY <2>2, <3>4, Zenon
  <2> QED BY <2>1, <2>2
<1>16. ClockAhead'
  <2> SUFFICES ASSUME ~ setback', NEW j \in known' PROVE last_refill'[j] <= now'
    BY DEF ClockAhead
  <2>1. CASE j # k
    BY <2>1, <1>3, <1>5 DEF RateIInv, ClockAhead
  <2>2. CASE j = k
    <3>1. k \in known => last_refill[k] <= now
      BY <1>3 DEF RateIInv, ClockAhead
    <3>2. at <= now
      BY <3>1, <1>5 DEF at, RefilledAt
    <3> QED BY <2>2, <3>2, <1>3, <1>11
  <2> QED BY <2>1, <2>2
<1>17. RetryAfterHonest'
  <2> SUFFICES ASSUME ~ setback', NEW j \in Keys, promise'[j] # -1
               PROVE  tokens'[j] + Capacity[j] * (promise'[j] - last_refill'[j]) >= Period[j]
    BY DEF RetryAfterHonest
  <2>1. CASE j # k
    BY <2>1, <1>3, <1>6 DEF RateIInv, RetryAfterHonest
  <2>2. CASE j = k
    <3>1. ~ allowed
      BY <2>2, <1>3, <1>5
    <3>2. at = now
      <4>1. k \in known => last_refill[k] <= now
        BY <1>3 DEF RateIInv, ClockAhead
      <4> QED BY <4>1, <1>5 DEF at, RefilledAt, Elapsed
    <3>3. promise'[k] - last_refill'[k] = RetryAfter(k, have)
      BY <3>1, <3>2, <1>3, <1>4, <1>5, <1>11
    <3> QED BY <2>2, <3>1, <3>3, <1>4, <1>11 DEF p, c
  <2> QED BY <2>1, <2>2
<1> QED BY <1>7, <1>8, <1>14, <1>15, <1>16, <1>17 DEF RateIInv

\* The inductive invariant of check, for every interleaving of calls, every
\* limit and every clock.
THEOREM RateInvariance == RateSpec => []RateIInv
<1>1. RateIInv /\ UNCHANGED rateVars => RateIInv'
  BY DEF RateIInv, RateTypeOK, Unused, Budget, WindowBound, Within, ClockAhead, RetryAfterHonest, Full, rateVars
<1>2. RateIInv /\ [RateNext]_rateVars => RateIInv'
  BY <1>1, ClockKeepsIInv, CheckKeepsIInv DEF RateNext
<1> QED BY RateInitIInv, <1>2, PTL DEF RateSpec

\* Over any window a key admits at most a burst plus the refill.
THEOREM RateIsBounded == RateSpec => []WindowBound
<1>1. RateIInv => WindowBound
  BY DEF RateIInv
<1> QED BY RateInvariance, <1>1, PTL

\* The Retry-After a refused caller is given is long enough.
THEOREM RetryAfterIsEnough == RateSpec => []RetryAfterHonest
<1>1. RateIInv => RetryAfterHonest
  BY DEF RateIInv
<1> QED BY RateInvariance, <1>1, PTL

\* Buckets stay between empty and full.
THEOREM BucketsTyped == RateSpec => []RateTypeOK
<1>1. RateIInv => RateTypeOK
  BY DEF RateIInv
<1> QED BY RateInvariance, <1>1, PTL
=============================================================================
