--------------------------- MODULE ServiceProofs ---------------------------
(***************************************************************************)
(* Proofs about Service, for any number of requests, users, keys and texts *)
(* and any pool.  A request is judged alone, from its own record, the keys *)
(* and the log: what holds at each point it may wait at is Good, and other *)
(* requests disturb it only through the keys, which are never forgotten    *)
(* nor given back once revoked.                                            *)
(***************************************************************************)
EXTENDS Service, FiniteSetTheorems, TLAPS

----------------------------------------------------------------------------
(* The inductive invariant.                                                *)

\* Where the caller is not known yet, and where it has been let in.
Outdoors == {"idle", "key_row", "key_user", "touch", "user_row"}
Indoors == {"limit", "handle", "execute", "probe", "select_one", "find_key", "create",
            "revoke", "list"}
Points == Outdoors \cup Indoors \cup {"audit", "done"}

KeyErrors == {"InvalidApiKeyError", "ApiKeyRevokedError", "ApiKeyExpiredError", "InactiveUserError"}
KeyEvents == {"API_KEY_AUTH_FAILURE", "API_KEY_AUTH_SUCCESS"}
Events == KeyEvents \cup {"AUTHORIZATION_DENIED", "API_KEY_CREATED", "API_KEY_REVOKED"}

KeyRows ==
    [exists : BOOLEAN, owner : Users \cup {None}, revoked : BOOLEAN, expired : BOOLEAN,
     recent : BOOLEAN]

Generations ==
    [error : Failures \cup {None}, sql : DOMAIN Texts \cup {None}, valid : BOOLEAN \cup {None},
     attempted : BOOLEAN, performed : BOOLEAN, timed : SUBSET Stages]

\* How a validation or an execution comes out, and the shapes of an answer.
Outcomes == {"valid", "invalid", "error", "rejected", "success", "timeout", "failed"}
Shapes == {"empty_result", "scalar", "aggregation", "detail", "table"}

Request ==
    [pc : Points, plan : ClientPlans \cup {None}, conn : BOOLEAN, status : Nat,
     headers : BOOLEAN, user : Users \cup {None}, row : KeyRows \cup {None},
     event : Events \cup {None}, error : KeyErrors \cup {None},
     generation : Generations \cup {None}, ran : DOMAIN Texts \cup {None},
     outcome : Outcomes \cup {None}, answer : Shapes \cup {None},
     late : BOOLEAN, lost : BOOLEAN, broke : BOOLEAN]

TypeOK == keys \in [Keys -> KeyRows] /\ reqs \in [Requests -> Request]

\* The keys ks: an existing key has an owner, a revoked one exists.
KeysGood(ks) ==
    \A k \in Keys : /\ ks[k].exists => ks[k].owner \in Users
                    /\ ks[k].revoked => ks[k].exists

Credential(q) == Routes[q.plan.route].credential
ByKey(q) == Credential(q) = "any" /\ q.plan.key # None

\* A request has a plan once it arrived, and each point belongs to some routes.
Placed(q) ==
    /\ q.pc # "idle" => q.plan \in ClientPlans
    /\ q.pc = "execute" => q.plan.route \in {"query", "execute"}
    /\ q.pc = "create" => q.plan.route = "create_api_key"
    /\ q.pc \in {"find_key", "revoke"} => q.plan.route = "revoke_api_key"

\* Who the caller is known to be, and what is known of its key.
Identified(q, ks) ==
    /\ q.pc \in Outdoors => q.user = None
    /\ q.pc \in {"key_row", "key_user", "touch"} => Credential(q) = "any" /\ q.plan.key \in Keys
    /\ q.pc \in {"key_user", "touch"} => q.row \in KeyRows /\ q.row.owner \in Users
    /\ q.pc = "user_row" => q.plan.bearer \in Users \cup {"gone"} /\ ~ByKey(q) /\ Credential(q) # "none"
    /\ q.pc \in Indoors => (q.user = None <=> Credential(q) = "none")
    /\ q.pc = "revoke" => ks[q.plan.target].exists

\* What an event about to be recorded stands for.
Recording(q, ks) ==
    q.pc = "audit" =>
        /\ q.event \in Events
        /\ q.event = "API_KEY_AUTH_FAILURE" => q.error \in KeyErrors /\ q.user = None
        /\ q.event # "API_KEY_AUTH_FAILURE" => q.user # None /\ Credential(q) # "none"
        /\ q.event = "API_KEY_AUTH_SUCCESS" => ByKey(q)
        /\ q.event = "API_KEY_CREATED" => q.plan.route = "create_api_key"
        /\ q.event = "API_KEY_REVOKED" =>
             q.plan.route = "revoke_api_key" /\ ks[q.plan.target].revoked

\* What the log holds of request r.
Log(r, q, ks, log) ==
    /\ q.pc \in Outdoors \/ (q.pc = "audit" /\ q.event \in KeyEvents) =>
         \A e \in Events : <<r, e>> \notin log
    /\ q.pc \in Indoors \/ (q.pc = "audit" /\ q.event \notin KeyEvents) =>
         /\ <<r, "API_KEY_AUTH_FAILURE">> \notin log
         /\ <<r, "AUTHORIZATION_DENIED">> \notin log
         /\ q.lost \/ (<<r, "API_KEY_AUTH_SUCCESS">> \in log <=> q.user # None /\ ByKey(q))
    /\ q.pc = "done" /\ ~q.lost =>
         /\ <<r, "API_KEY_AUTH_FAILURE">> \in log => q.user = None /\ q.status \in {401, 403}
         /\ <<r, "API_KEY_AUTH_SUCCESS">> \in log <=> q.user # None /\ ByKey(q)
         /\ <<r, "AUTHORIZATION_DENIED">> \in log <=> q.user # None /\ q.status = 403
    /\ <<r, "API_KEY_REVOKED">> \in log => 
         /\ q.pc # "idle" /\ q.plan.route = "revoke_api_key"
         /\ ks[q.plan.target].revoked

\* A request whose key was revoked before it came is refused.
Late(q, ks) ==
    q.late =>
        /\ q.pc # "idle"
        /\ q.plan.key \in Keys /\ ks[q.plan.key].revoked
        /\ Credential(q) = "any" =>
             /\ q.user = None
             /\ \/ q.pc \in {"key_row", "done"}
                \/ q.pc = "audit" /\ q.event = "API_KEY_AUTH_FAILURE"

\* The text t is one SELECT without the guard's write nodes, and valid in hash
\* order ho where the service wrote it itself.
Reading(t, q, ho) ==
    /\ t \in DOMAIN Texts
    /\ Len(Texts[t].statements) = 1
    /\ Texts[t].statements[1].kind = "select"
    /\ Texts[t].statements[1].nodes \cap WRITE_NODE_TYPES = {}
    /\ q.plan.route = "query" => <<t, ho, TRUE>> \in Verdicts

\* What is about to run, and what ran.
Executing(q, ho) ==
    /\ q.pc = "execute" /\ q.plan.route = "execute" => Reading(q.plan.text, q, ho)
    /\ q.pc = "execute" /\ q.plan.route = "query" =>
         q.generation \in Generations /\ Reading(q.generation.sql, q, ho)
    /\ q.ran # None => q.pc = "done" /\ Reading(q.ran, q, ho)
    /\ q.generation # None => q.pc = "done" \/ (q.pc = "execute" /\ q.plan.route = "query")

\* What nobody handles: the database failed, or sqlglot or the model did.
Explained(q) ==
    \/ q.broke
    \/ q.plan.route = "validate" /\ Texts[q.plan.text].reads = "token_error"
    \/ /\ q.plan.route = "execute" /\ q.plan.claim
       /\ Texts[q.plan.text].reads \in {"parse_error", "token_error"}
    \/ q.plan.route = "repair" /\ q.plan.question # "empty"

\* What an answer says.
Answers(q, ks) ==
    q.pc = "done" =>
        /\ q.status = 204 => q.plan.route = "revoke_api_key" /\ ks[q.plan.target].revoked
        /\ q.status = 500 =>
             \/ Explained(q)
             \/ /\ q.plan.route = "sql"
                /\ q.generation.error \in Failures \ {"EmptyQuestionError"}
        /\ q.plan.route = "query" /\ q.generation # None => q.status = 200
        /\ ~q.headers => q.status = 500 /\ q.generation = None

Good(r, q, ks, log, ho) ==
    /\ Placed(q) /\ Identified(q, ks) /\ Recording(q, ks) /\ Log(r, q, ks, log)
    /\ Late(q, ks) /\ Executing(q, ho) /\ Answers(q, ks)

\* That key k is revoked shows in request r: in the log, about to be, or lost.
Shows(r, q, log, k) ==
    /\ q.pc # "idle" /\ q.plan.target = k
    /\ \/ <<r, "API_KEY_REVOKED">> \in log \/ q.lost \/ q.broke
       \/ q.event = "API_KEY_REVOKED" /\ q.pc = "audit"

RevocationsShow ==
    \A k \in Keys : keys[k].revoked => \E r \in Requests : Shows(r, reqs[r], audit, k)

Holders == {r \in Requests : reqs[r].conn}

\* The pool counts the requests that hold a connection, and a request holds
\* one only while it is at the database.
PoolCounts ==
    /\ pool = Cardinality(Holders) /\ pool <= PoolSize
    /\ \A r \in Holders : reqs[r].pc \in DbPoints

IInv ==
    /\ TypeOK /\ KeysGood(keys)
    /\ \A r \in Requests : Good(r, reqs[r], keys, audit, hash_order)
    /\ RevocationsShow
    /\ PoolCounts

----------------------------------------------------------------------------
(* What the operators leave a request with.                                *)

Kept(p, q) ==
    /\ p.plan = q.plan /\ p.user = q.user /\ p.row = q.row /\ p.event = q.event
    /\ p.error = q.error /\ p.generation = q.generation /\ p.ran = q.ran
    /\ p.late = q.late /\ p.lost = q.lost /\ p.broke = q.broke

LEMMA GotoIs ==
  ASSUME NEW q \in Request, NEW c \in Points
  PROVE  /\ Goto(q, c) \in Request /\ Kept(Goto(q, c), q)
         /\ Goto(q, c).pc = c /\ Goto(q, c).conn = q.conn
BY DEF Goto, Request, Kept

LEMMA AnswerIs ==
  ASSUME NEW q \in Request, NEW code \in Nat
  PROVE  /\ Answer(q, code) \in Request /\ Kept(Answer(q, code), q)
         /\ Answer(q, code).pc = "done" /\ Answer(q, code).status = code
         /\ Answer(q, code).headers /\ Answer(q, code).conn = q.conn
<1>1. Answer(q, code) \in Request
  BY ZenonT(30) DEF Answer, Request, Points
<1>2. Kept(Answer(q, code), q)
  BY DEF Answer, Request, Kept
<1>3. /\ Answer(q, code).pc = "done" /\ Answer(q, code).status = code
      /\ Answer(q, code).headers /\ Answer(q, code).conn = q.conn
  BY DEF Answer, Request
<1> QED
  BY <1>1, <1>2, <1>3

LEMMA DoneTyped ==
  ASSUME NEW q \in Request, NEW code \in Nat, NEW b \in BOOLEAN
  PROVE  [q EXCEPT !.pc = "done", !.status = code, !.headers = b] \in Request
<1> DEFINE p == [q EXCEPT !.pc = "done", !.status = code]
<1>1. p \in Request
  BY ZenonT(30) DEF Request, Points
<1>2. [q EXCEPT !.pc = "done", !.status = code, !.headers = b] = [p EXCEPT !.headers = b]
  BY DEF Request
<1> HIDE DEF p
<1>3. [p EXCEPT !.headers = b] \in Request
  BY <1>1 DEF Request
<1> QED
  BY <1>2, <1>3, Zenon

LEMMA UnhandledIs ==
  ASSUME NEW q \in Request
  PROVE  /\ Unhandled(q) \in Request /\ Kept(Unhandled(q), q)
         /\ Unhandled(q).pc = "done" /\ Unhandled(q).status = 500
         /\ ~Unhandled(q).headers /\ Unhandled(q).conn = q.conn
<1>1. Unhandled(q) \in Request
  <2>1. 500 \in Nat /\ FALSE \in BOOLEAN /\ "done" \in Points
    BY DEF Points
  <2> QED
    BY <2>1, DoneTyped, ZenonT(30) DEF Unhandled
<1>2. Kept(Unhandled(q), q)
  BY DEF Unhandled, Request, Kept
<1>3. /\ Unhandled(q).pc = "done" /\ Unhandled(q).status = 500
      /\ ~Unhandled(q).headers /\ Unhandled(q).conn = q.conn
  BY DEF Unhandled, Request
<1> QED
  BY <1>1, <1>2, <1>3

LEMMA RecordIs ==
  ASSUME NEW q \in Request, NEW e \in Events
  PROVE  LET p == Record(q, e)
         IN  /\ p \in Request /\ p.pc = "audit" /\ p.event = e /\ p.conn = q.conn
             /\ p.plan = q.plan /\ p.user = q.user /\ p.row = q.row
             /\ p.error = q.error /\ p.generation = q.generation /\ p.ran = q.ran
             /\ p.late = q.late /\ p.lost = q.lost /\ p.broke = q.broke
<1>1. Record(q, e) \in Request
  BY ZenonT(30) DEF Record, Request, Points
<1>2. LET p == Record(q, e)
      IN  /\ p.pc = "audit" /\ p.event = e /\ p.conn = q.conn
          /\ p.plan = q.plan /\ p.user = q.user /\ p.row = q.row
          /\ p.error = q.error /\ p.generation = q.generation /\ p.ran = q.ran
          /\ p.late = q.late /\ p.lost = q.lost /\ p.broke = q.broke
  BY DEF Record, Request
<1> QED
  BY <1>1, <1>2

LEMMA RaiseIs ==
  ASSUME NEW q
  PROVE  /\ Raise(q, "InvalidTokenError") = Answer(q, 401)
         /\ Raise(q, "InvalidApiKeyError") = Answer(q, 401)
         /\ Raise(q, "ApiKeyExpiredError") = Answer(q, 401)
         /\ Raise(q, "ApiKeyRevokedError") = Answer(q, 401)
         /\ Raise(q, "ApiKeyNotFoundError") = Answer(q, 404)
         /\ Raise(q, "InactiveUserError") = Answer(q, 403)
         /\ Raise(q, "ForbiddenRoleError") = Answer(q, 403)
         /\ Raise(q, "FormattingError") = Answer(q, 422)
         /\ Raise(q, "EmptyQuestionError") = Answer(q, 400)
         /\ Raise(q, "LLMError") = Unhandled(q)
BY DEF Raise, status_for, STATUS_BY_EXCEPTION

\* A connection taken or given back is no concern of Good.
LEMMA ConnIs ==
  ASSUME NEW q \in Request, NEW b \in BOOLEAN
  PROVE  LET p == [q EXCEPT !.conn = b]
         IN  /\ p \in Request /\ Kept(p, q) /\ p.pc = q.pc /\ p.status = q.status
             /\ p.headers = q.headers /\ p.conn = b
BY DEF Request, Kept

LEMMA GoodKept ==
  ASSUME NEW r, NEW q, NEW p, NEW ks, NEW log, NEW ho,
         Kept(p, q), p.pc = q.pc, p.status = q.status, p.headers = q.headers,
         Good(r, q, ks, log, ho)
  PROVE  Good(r, p, ks, log, ho)
<1> USE DEF Kept, ByKey, Credential
<1>1. Placed(p)
  BY DEF Placed, Good
<1>2. Identified(p, ks)
  BY DEF Identified, Good
<1>3. Recording(p, ks)
  BY DEF Recording, Good
<1>4. Log(r, p, ks, log)
  BY DEF Log, Good
<1>5. Late(p, ks)
  BY DEF Late, Good
<1>6. Executing(p, ho)
  BY DEF Executing, Reading, Good
<1>7. Answers(p, ks)
  BY DEF Answers, Explained, Good
<1> QED
  BY <1>1, <1>2, <1>3, <1>4, <1>5, <1>6, <1>7 DEF Good

----------------------------------------------------------------------------
(* What other requests do.                                                 *)

Grows(ks, ks2) ==
    \A k \in Keys : /\ ks[k].exists => ks2[k].exists
                    /\ ks[k].revoked => ks2[k].revoked

LEMMA GoodGrows ==
  ASSUME NEW r, NEW q \in Request, NEW ks, NEW ks2, NEW log, NEW ho,
         Grows(ks, ks2), Good(r, q, ks, log, ho)
  PROVE  Good(r, q, ks2, log, ho)
<1> USE DEF Grows
<1>1. Identified(q, ks2)
  BY DEF Identified, Good, Placed, ClientPlans
<1>2. Recording(q, ks2)
  BY DEF Recording, Good, Placed, ClientPlans
<1>3. Log(r, q, ks2, log)
  BY DEF Log, Good, Placed, ClientPlans
<1>4. Late(q, ks2)
  BY DEF Late, Good
<1>5. Answers(q, ks2)
  BY DEF Answers, Good, Placed, ClientPlans
<1> QED
  BY <1>1, <1>2, <1>3, <1>4, <1>5 DEF Good

LEMMA GoodElsewhere ==
  ASSUME NEW r, NEW q, NEW ks, NEW log, NEW log2, NEW ho,
         \A e : <<r, e>> \in log2 <=> <<r, e>> \in log, Good(r, q, ks, log, ho)
  PROVE  Good(r, q, ks, log2, ho)
BY DEF Good, Log

\* A step leads from q to p, which is good: the plan and what is known of
\* failures stay.
Leads(r, q, p, ks, log, ho) ==
    /\ p \in Request /\ p.conn = q.conn /\ p.pc # "idle"
    /\ p.plan = q.plan /\ p.lost = q.lost /\ p.broke = q.broke
    /\ Good(r, p, ks, log, ho)

----------------------------------------------------------------------------
(* A caller that is not known yet.                                         *)

Unknown(r, q, ks, log) ==
    /\ q \in Request /\ q.plan \in ClientPlans
    /\ q.user = None /\ q.ran = None /\ q.generation = None
    /\ \A e \in Events : <<r, e>> \notin log
    /\ q.late => q.plan.key \in Keys /\ ks[q.plan.key].revoked

LEMMA OutdoorsUnknown ==
  ASSUME NEW r, NEW q \in Request, NEW ks, NEW log, NEW ho, Good(r, q, ks, log, ho),
         q.pc \in Outdoors \ {"idle"}
  PROVE  Unknown(r, q, ks, log)
<1>1. q.plan \in ClientPlans
  BY DEF Good, Placed, Outdoors
<1>2. q.user = None
  BY DEF Good, Identified
<1>3. q.ran = None /\ q.generation = None
  BY DEF Good, Executing, Outdoors
<1>4. \A e \in Events : <<r, e>> \notin log
  BY DEF Good, Log
<1>5. q.late => q.plan.key \in Keys /\ ks[q.plan.key].revoked
  BY DEF Good, Late
<1> QED
  BY <1>1, <1>2, <1>3, <1>4, <1>5 DEF Unknown

\* Statuses that say nothing of what happened inside.
Plain(code) == code # 204 /\ code # 500

LEMMA AnswerUnknown ==
  ASSUME NEW r, NEW q, NEW ks, NEW log, NEW ho, Unknown(r, q, ks, log),
         NEW code \in Nat, Plain(code)
  PROVE  Leads(r, q, Answer(q, code), ks, log, ho)
<1> DEFINE p == Answer(q, code)
<1>1. /\ p \in Request /\ Kept(p, q) /\ p.conn = q.conn /\ p.pc = "done" /\ p.status = code /\ p.headers
  BY AnswerIs DEF Unknown
<1> HIDE DEF p
<1> USE <1>1 DEF Kept, Unknown
<1>2. Placed(p)
  BY DEF Placed
<1>3. Identified(p, ks)
  BY DEF Identified, Outdoors, Indoors
<1>4. Recording(p, ks)
  BY DEF Recording
<1>5. Log(r, p, ks, log)
  BY DEF Log, Events, KeyEvents, Outdoors, Indoors
<1>6. Late(p, ks)
  BY DEF Late, Credential
<1>7. Executing(p, ho)
  BY DEF Executing
<1>8. Answers(p, ks)
  BY DEF Answers, Plain
<1> QED
  BY <1>2, <1>3, <1>4, <1>5, <1>6, <1>7, <1>8 DEF Good, Leads, p

\* The database failed while the caller was being identified.
LEMMA UnhandledUnknown ==
  ASSUME NEW r, NEW q, NEW ks, NEW log, NEW ho, Unknown(r, q, ks, log), q.broke
  PROVE  Leads(r, q, Unhandled(q), ks, log, ho)
<1> DEFINE p == Unhandled(q)
<1>1. /\ p \in Request /\ Kept(p, q) /\ p.conn = q.conn /\ p.pc = "done" /\ p.status = 500
  BY UnhandledIs, ZenonT(30) DEF Unknown
<1> HIDE DEF p
<1> USE <1>1 DEF Kept, Unknown
<1>2. Placed(p)
  BY DEF Placed
<1>3. Identified(p, ks)
  BY DEF Identified, Outdoors, Indoors
<1>4. Recording(p, ks)
  BY DEF Recording
<1>5. Log(r, p, ks, log)
  BY DEF Log, Events, KeyEvents, Outdoors, Indoors
<1>6. Late(p, ks)
  BY DEF Late, Credential
<1>7. Executing(p, ho)
  BY DEF Executing
<1>8. Answers(p, ks)
  BY DEF Answers, Explained
<1> QED
  BY <1>2, <1>3, <1>4, <1>5, <1>6, <1>7, <1>8 DEF Good, Leads, p

LEMMA RefuseUnknown ==
  ASSUME NEW r, NEW q, NEW ks, NEW log, NEW ho, Unknown(r, q, ks, log),
         NEW error \in KeyErrors
  PROVE  Leads(r, q, RefuseKey(q, error), ks, log, ho)
<1> DEFINE q1 == [q EXCEPT !.error = error]
           p == RefuseKey(q, error)
<1>1. /\ q1 \in Request /\ q1.conn = q.conn /\ q1.plan = q.plan /\ q1.user = q.user /\ q1.row = q.row
      /\ q1.error = error /\ q1.generation = q.generation /\ q1.ran = q.ran
      /\ q1.late = q.late /\ q1.lost = q.lost /\ q1.broke = q.broke
  BY DEF Unknown, Request
<1> HIDE DEF q1
<1>2. "API_KEY_AUTH_FAILURE" \in Events
  BY DEF Events, KeyEvents
<1>3. /\ p \in Request /\ p.pc = "audit" /\ p.event = "API_KEY_AUTH_FAILURE"
      /\ p.plan = q.plan /\ p.user = q.user /\ p.error = error
      /\ p.generation = q.generation /\ p.ran = q.ran /\ p.late = q.late
      /\ p.conn = q.conn /\ p.lost = q.lost /\ p.broke = q.broke
  BY <1>1, <1>2, RecordIs DEF RefuseKey, q1
<1> HIDE DEF p
<1> USE <1>3 DEF Unknown
<1>4. Placed(p)
  BY DEF Placed
<1>5. Identified(p, ks)
  BY DEF Identified, Outdoors, Indoors
<1>6. Recording(p, ks)
  BY DEF Recording, Events, KeyEvents
<1>7. Log(r, p, ks, log)
  BY DEF Log, Events, KeyEvents, Outdoors, Indoors
<1>8. Late(p, ks)
  BY DEF Late, Credential
<1>9. Executing(p, ho) /\ Answers(p, ks)
  BY DEF Executing, Answers
<1> QED
  BY <1>4, <1>5, <1>6, <1>7, <1>8, <1>9 DEF Good, Leads, p

\* On to the row of the key, of the user, or to the handler that asks nobody.
LEMMA GotoUnknown ==
  ASSUME NEW r, NEW q, NEW ks, NEW log, NEW ho, Unknown(r, q, ks, log),
         NEW c \in Outdoors \cup {"handle"},
         c = "key_row" => Credential(q) = "any" /\ q.plan.key \in Keys,
         c \in {"key_user", "touch"} =>
            /\ Credential(q) = "any" /\ q.plan.key \in Keys
            /\ q.row \in KeyRows /\ q.row.owner \in Users /\ ~q.late,
         c = "user_row" => q.plan.bearer \in Users \cup {"gone"} /\ ~ByKey(q) /\ Credential(q) # "none",
         c = "handle" => Credential(q) = "none",
         c # "idle"
  PROVE  Leads(r, q, Goto(q, c), ks, log, ho)
<1> DEFINE p == Goto(q, c)
<1>1. p \in Request /\ Kept(p, q) /\ p.conn = q.conn /\ p.pc = c
  <2>1. c \in Points
    BY DEF Points, Outdoors, Indoors
  <2> QED
    BY <2>1, GotoIs DEF Unknown
<1> HIDE DEF p
<1> USE <1>1 DEF Kept, Unknown
<1>2. Placed(p)
  BY DEF Placed, Outdoors
<1>3. Identified(p, ks)
  BY DEF Identified, Outdoors, Indoors, Credential, ByKey
<1>4. Recording(p, ks)
  BY DEF Recording, Outdoors
<1>5. Log(r, p, ks, log)
  BY DEF Log, Events, KeyEvents, Outdoors, Indoors
<1>6. Late(p, ks)
  BY NoneAssumption DEF Late, Credential, ByKey, Outdoors
<1>7. Executing(p, ho) /\ Answers(p, ks)
  BY DEF Executing, Answers, Outdoors
<1> QED
  BY <1>2, <1>3, <1>4, <1>5, <1>6, <1>7 DEF Good, Leads, p, Outdoors, Indoors

----------------------------------------------------------------------------
(* A caller that has been let in.                                          *)

Known(r, q, ks, log) ==
    /\ q \in Request /\ q.plan \in ClientPlans
    /\ q.user = None <=> Credential(q) = "none"
    /\ <<r, "API_KEY_AUTH_FAILURE">> \notin log
    /\ <<r, "AUTHORIZATION_DENIED">> \notin log
    /\ q.lost \/ (<<r, "API_KEY_AUTH_SUCCESS">> \in log <=> q.user # None /\ ByKey(q))
    /\ <<r, "API_KEY_REVOKED">> \in log =>
         q.plan.route = "revoke_api_key" /\ ks[q.plan.target].revoked
    /\ q.late => q.plan.key \in Keys /\ ks[q.plan.key].revoked /\ Credential(q) # "any"

LEMMA IndoorsKnown ==
  ASSUME NEW r, NEW q \in Request, NEW ks, NEW log, NEW ho, Good(r, q, ks, log, ho),
         q.pc \in Indoors
  PROVE  Known(r, q, ks, log) /\ q.ran = None /\ (q.pc # "execute" => q.generation = None)
<1>1. q.plan \in ClientPlans
  BY DEF Good, Placed, Indoors
<1>2. q.user = None <=> Credential(q) = "none"
  BY DEF Good, Identified
<1>3. /\ <<r, "API_KEY_AUTH_FAILURE">> \notin log
      /\ <<r, "AUTHORIZATION_DENIED">> \notin log
      /\ q.lost \/ (<<r, "API_KEY_AUTH_SUCCESS">> \in log <=> q.user # None /\ ByKey(q))
      /\ <<r, "API_KEY_REVOKED">> \in log =>
           q.plan.route = "revoke_api_key" /\ ks[q.plan.target].revoked
  BY DEF Good, Log
<1>4. q.late => q.plan.key \in Keys /\ ks[q.plan.key].revoked /\ Credential(q) # "any"
  BY DEF Good, Late, Indoors
<1>5. q.ran = None /\ (q.pc # "execute" => q.generation = None)
  BY DEF Good, Executing, Indoors
<1> QED
  BY <1>1, <1>2, <1>3, <1>4, <1>5 DEF Known

\* The statuses a caller that was let in may be answered with.
Fits(q, ks, code) ==
    /\ code # 403
    /\ code = 204 => q.plan.route = "revoke_api_key" /\ ks[q.plan.target].revoked
    /\ code = 500 => /\ q.plan.route = "sql"
                     /\ q.generation.error \in Failures \ {"EmptyQuestionError"}
    /\ q.plan.route = "query" /\ q.generation # None => code = 200

LEMMA AnswerKnown ==
  ASSUME NEW r, NEW q, NEW ks, NEW log, NEW ho, Known(r, q, ks, log),
         NEW code \in Nat, Fits(q, ks, code),
         q.ran # None => Reading(q.ran, q, ho)
  PROVE  Leads(r, q, Answer(q, code), ks, log, ho)
<1> DEFINE p == Answer(q, code)
<1>1. /\ p \in Request /\ Kept(p, q) /\ p.conn = q.conn /\ p.pc = "done" /\ p.status = code /\ p.headers
  <2>1. q \in Request
    BY DEF Known
  <2> QED
    BY <2>1, AnswerIs, Zenon
<1> HIDE DEF p
<1> USE <1>1 DEF Kept, Known, Fits
<1>2. Placed(p)
  BY DEF Placed
<1>3. Identified(p, ks)
  BY DEF Identified, Outdoors, Indoors
<1>4. Recording(p, ks)
  BY DEF Recording
<1>5. Log(r, p, ks, log)
  BY DEF Log, Outdoors, Indoors, ByKey, Credential
<1>6. Late(p, ks)
  BY DEF Late, Credential
<1>7. Executing(p, ho)
  BY DEF Executing, Reading
<1>8. Answers(p, ks)
  BY DEF Answers
<1> QED
  BY <1>2, <1>3, <1>4, <1>5, <1>6, <1>7, <1>8 DEF Good, Leads, p

LEMMA UnhandledKnown ==
  ASSUME NEW r, NEW q, NEW ks, NEW log, NEW ho, Known(r, q, ks, log), Explained(q),
         q.ran # None => Reading(q.ran, q, ho), q.generation = None
  PROVE  Leads(r, q, Unhandled(q), ks, log, ho)
<1> DEFINE p == Unhandled(q)
<1>1. /\ p \in Request /\ Kept(p, q) /\ p.conn = q.conn /\ p.pc = "done" /\ p.status = 500
  BY UnhandledIs, ZenonT(30) DEF Known
<1> HIDE DEF p
<1> USE <1>1 DEF Kept, Known
<1>2. Placed(p)
  BY DEF Placed
<1>3. Identified(p, ks)
  BY DEF Identified, Outdoors, Indoors
<1>4. Recording(p, ks)
  BY DEF Recording
<1>5. Log(r, p, ks, log)
  BY DEF Log, Outdoors, Indoors, ByKey, Credential
<1>6. Late(p, ks)
  BY DEF Late, Credential
<1>7. Executing(p, ho)
  BY DEF Executing, Reading
<1>8. Answers(p, ks)
  BY DEF Answers, Explained
<1> QED
  BY <1>2, <1>3, <1>4, <1>5, <1>6, <1>7, <1>8 DEF Good, Leads, p

LEMMA RecordKnown ==
  ASSUME NEW r, NEW q, NEW ks, NEW log, NEW ho, Known(r, q, ks, log),
         q.user # None, q.ran = None, q.generation = None,
         NEW e \in Events \ KeyEvents,
         e = "API_KEY_CREATED" => q.plan.route = "create_api_key",
         e = "API_KEY_REVOKED" => q.plan.route = "revoke_api_key" /\ ks[q.plan.target].revoked
  PROVE  Leads(r, q, Record(q, e), ks, log, ho)
<1> DEFINE p == Record(q, e)
<1>1. /\ p \in Request /\ p.conn = q.conn /\ p.pc = "audit" /\ p.event = e
      /\ p.plan = q.plan /\ p.user = q.user /\ p.row = q.row
      /\ p.error = q.error /\ p.generation = q.generation /\ p.ran = q.ran
      /\ p.late = q.late /\ p.lost = q.lost /\ p.broke = q.broke
  BY RecordIs DEF Known
<1> HIDE DEF p
<1> USE <1>1 DEF Known
<1>2. Placed(p)
  BY DEF Placed
<1>3. Identified(p, ks)
  BY DEF Identified, Outdoors, Indoors
<1>4. Recording(p, ks)
  BY DEF Recording, Events, KeyEvents, Credential
<1>5. Log(r, p, ks, log)
  BY DEF Log, Outdoors, Indoors, ByKey, Credential
<1>6. Late(p, ks)
  BY DEF Late, Credential
<1>7. Executing(p, ho) /\ Answers(p, ks)
  BY DEF Executing, Answers
<1> QED
  BY <1>1, <1>2, <1>3, <1>4, <1>5, <1>6, <1>7 DEF Good, Leads, p

LEMMA GotoKnown ==
  ASSUME NEW r, NEW q, NEW ks, NEW log, NEW ho, Known(r, q, ks, log),
         NEW c \in Indoors, q.ran = None,
         c # "execute" => q.generation = None,
         c = "execute" =>
            \/ q.plan.route = "execute" /\ q.generation = None /\ Reading(q.plan.text, q, ho)
            \/ /\ q.plan.route = "query" /\ q.generation \in Generations
               /\ Reading(q.generation.sql, q, ho),
         c = "create" => q.plan.route = "create_api_key",
         c \in {"find_key", "revoke"} => q.plan.route = "revoke_api_key",
         c = "revoke" => ks[q.plan.target].exists
  PROVE  Leads(r, q, Goto(q, c), ks, log, ho)
<1> DEFINE p == Goto(q, c)
<1>1. p \in Request /\ Kept(p, q) /\ p.conn = q.conn /\ p.pc = c
  <2>1. c \in Points
    BY DEF Points, Indoors
  <2> QED
    BY <2>1, GotoIs DEF Known
<1> HIDE DEF p
<1> USE <1>1 DEF Kept, Known
<1>2. Placed(p)
  BY DEF Placed
<1>3. Identified(p, ks)
  BY DEF Identified, Outdoors, Indoors, Credential
<1>4. Recording(p, ks)
  BY DEF Recording, Indoors
<1>5. Log(r, p, ks, log)
  BY DEF Log, Outdoors, Indoors, ByKey, Credential
<1>6. Late(p, ks)
  BY DEF Late, Credential, Indoors
<1>7. Executing(p, ho)
  BY DEF Executing, Reading
<1>8. Answers(p, ks)
  BY DEF Answers, Indoors
<1> QED
  BY <1>2, <1>3, <1>4, <1>5, <1>6, <1>7, <1>8 DEF Good, Leads, p, Outdoors, Indoors

----------------------------------------------------------------------------
(* Roles and the log.                                                      *)

LEMMA AuthorizeKnown ==
  ASSUME NEW r, NEW q, NEW ks, NEW log, NEW ho, Known(r, q, ks, log),
         q.user # None, q.ran = None, q.generation = None
  PROVE  Leads(r, q, Authorize(q), ks, log, ho)
<1>1. CASE ROLE_RANK[Role[q.user]] < ROLE_RANK[Routes[q.plan.route].role]
  <2>1. "AUTHORIZATION_DENIED" \in Events \ KeyEvents
    BY DEF Events, KeyEvents
  <2>2. Authorize(q) = Record(q, "AUTHORIZATION_DENIED")
    BY <1>1 DEF Authorize
  <2>3. Leads(r, q, Record(q, "AUTHORIZATION_DENIED"), ks, log, ho)
    BY <2>1, RecordKnown
  <2> QED
    BY <2>2, <2>3
<1>2. CASE ~(ROLE_RANK[Role[q.user]] < ROLE_RANK[Routes[q.plan.route].role])
  <2>1. PICK c \in {"limit", "handle"} : Authorize(q) = Goto(q, c)
    BY <1>2 DEF Authorize
  <2>2. c \in Indoors /\ c # "execute" /\ c # "create" /\ c # "find_key" /\ c # "revoke"
    BY DEF Indoors
  <2>3. Leads(r, q, Goto(q, c), ks, log, ho)
    BY <2>2, GotoKnown
  <2> QED
    BY <2>1, <2>3
<1> QED
  BY <1>1, <1>2

\* Once its event is written, or lost, a request goes on.  log2 is the log
\* after the write, q the request, lost already set if the write failed.
Noted(r, q, log, log2) ==
    /\ log2 = log \/ log2 = log \cup {<<r, q.event>>}
    /\ q.lost \/ log2 = log \cup {<<r, q.event>>}

KeyCodes == {401, 403}

LEMMA RefusedResumes ==
  ASSUME NEW r, NEW q \in Request, NEW ks, NEW log, NEW log2, NEW ho,
         Good(r, q, ks, log, ho), Noted(r, q, log, log2),
         q.pc = "audit", q.event = "API_KEY_AUTH_FAILURE"
  PROVE  Leads(r, q, Resume(q), ks, log2, ho)
<1>1. q.error \in KeyErrors /\ q.user = None
  BY DEF Good, Recording
<1>2. Resume(q) = Raise(q, q.error)
  BY DEF Resume
<1>3. \E code \in KeyCodes : Resume(q) = Answer(q, code)
  BY <1>1, <1>2, RaiseIs DEF KeyErrors, KeyCodes
<1>4. PICK code \in KeyCodes : Resume(q) = Answer(q, code)
  BY <1>3
<1>5. code \in Nat
  BY <1>4 DEF KeyCodes
<1> DEFINE p == Answer(q, code)
<1>6. /\ p \in Request /\ Kept(p, q) /\ p.pc = "done" /\ p.status = code /\ p.headers
      /\ p.conn = q.conn
  BY <1>5, AnswerIs, Zenon
<1> HIDE DEF p
<1> USE <1>6 DEF Kept
<1>7. \A e \in Events : <<r, e>> \in log2 => e = "API_KEY_AUTH_FAILURE"
  BY DEF Good, Log, Noted, Events, KeyEvents
<1>8. Placed(p)
  BY DEF Placed, Good
<1>9. Identified(p, ks)
  BY DEF Identified, Outdoors, Indoors
<1>10. Recording(p, ks)
  BY DEF Recording
<1>11. Log(r, p, ks, log2)
  BY <1>1, <1>4, <1>7 DEF KeyCodes, Log, Events, KeyEvents, Outdoors, Indoors
<1>12. Late(p, ks)
  BY <1>1 DEF Late, Credential, Good
<1>13. Executing(p, ho)
  BY DEF Executing, Good
<1>14. Answers(p, ks)
  BY <1>4 DEF KeyCodes, Answers, Executing, Good
<1>15. Good(r, p, ks, log2, ho)
  BY <1>8, <1>9, <1>10, <1>11, <1>12, <1>13, <1>14 DEF Good
<1> QED
  BY <1>4, <1>6, <1>15 DEF Leads, p

LEMMA AcceptedResumes ==
  ASSUME NEW r, NEW q \in Request, NEW ks, NEW log, NEW log2, NEW ho,
         Good(r, q, ks, log, ho), Noted(r, q, log, log2),
         q.pc = "audit", q.event = "API_KEY_AUTH_SUCCESS"
  PROVE  Leads(r, q, Resume(q), ks, log2, ho)
<1>1. q.user # None /\ ByKey(q) /\ q.ran = None /\ q.generation = None
  BY DEF Good, Recording, Executing
<1>2. Resume(q) = Authorize(q)
  BY DEF Resume
<1>3. /\ <<r, "API_KEY_AUTH_FAILURE">> \notin log2
      /\ <<r, "AUTHORIZATION_DENIED">> \notin log2
      /\ <<r, "API_KEY_REVOKED">> \notin log2
      /\ q.lost \/ <<r, "API_KEY_AUTH_SUCCESS">> \in log2
  BY DEF Good, Log, Noted, Events, KeyEvents
<1>4. q.plan \in ClientPlans
  BY DEF Good, Placed
<1>5. ~q.late
  BY <1>1 DEF Good, Late, ByKey
<1>6. Known(r, q, ks, log2)
  BY <1>1, <1>3, <1>4, <1>5 DEF Known, ByKey
<1> QED
  BY <1>1, <1>2, <1>6, AuthorizeKnown

LEMMA KnownResumes ==
  ASSUME NEW r, NEW q \in Request, NEW ks, NEW log, NEW log2, NEW ho,
         Good(r, q, ks, log, ho), Noted(r, q, log, log2),
         q.pc = "audit", q.event \in {"API_KEY_CREATED", "API_KEY_REVOKED"}
  PROVE  Leads(r, q, Resume(q), ks, log2, ho)
<1>1. /\ q.user # None /\ Credential(q) # "none" /\ q.ran = None /\ q.generation = None
      /\ q.event = "API_KEY_REVOKED" =>
           q.plan.route = "revoke_api_key" /\ ks[q.plan.target].revoked
  BY DEF Good, Recording, Executing
<1>2. q.plan \in ClientPlans
  BY DEF Good, Placed
<1>3. q.late => q.plan.key \in Keys /\ ks[q.plan.key].revoked /\ Credential(q) # "any"
  BY DEF Good, Late
<1>4. /\ <<r, "API_KEY_AUTH_FAILURE">> \notin log2
      /\ <<r, "AUTHORIZATION_DENIED">> \notin log2
      /\ q.lost \/ (<<r, "API_KEY_AUTH_SUCCESS">> \in log2 <=> q.user # None /\ ByKey(q))
  BY DEF Good, Log, Noted, KeyEvents
<1>5. <<r, "API_KEY_REVOKED">> \in log2 =>
        q.plan.route = "revoke_api_key" /\ ks[q.plan.target].revoked
  BY <1>1 DEF Good, Log, Noted
<1>6. Known(r, q, ks, log2)
  BY <1>1, <1>2, <1>3, <1>4, <1>5 DEF Known
<1>7. \E code \in Nat : Resume(q) = Answer(q, code) /\ Fits(q, ks, code)
  BY <1>1 DEF Resume, Fits
<1>8. PICK code \in Nat : Resume(q) = Answer(q, code) /\ Fits(q, ks, code)
  BY <1>7
<1> QED
  BY <1>1, <1>6, <1>8, AnswerKnown, Zenon

Forbidden == 403

LEMMA DeniedResumes ==
  ASSUME NEW r, NEW q \in Request, NEW ks, NEW log, NEW log2, NEW ho,
         Good(r, q, ks, log, ho), Noted(r, q, log, log2),
         q.pc = "audit", q.event = "AUTHORIZATION_DENIED"
  PROVE  Leads(r, q, Resume(q), ks, log2, ho)
<1>1. /\ q.user # None /\ q.ran = None /\ q.generation = None
  BY DEF Good, Recording, Executing
<1>2. \E code \in Nat : code = Forbidden /\ Resume(q) = Answer(q, code)
  BY RaiseIs DEF Resume, Forbidden
<1>3. PICK code \in Nat : code = Forbidden /\ Resume(q) = Answer(q, code)
  BY <1>2
<1> DEFINE p == Answer(q, code)
<1>4. /\ p \in Request /\ Kept(p, q) /\ p.pc = "done" /\ p.status = code /\ p.headers
      /\ p.conn = q.conn
  BY <1>3, AnswerIs, Zenon
<1> HIDE DEF p
<1> USE <1>4 DEF Kept
<1>5. /\ <<r, "API_KEY_AUTH_FAILURE">> \notin log2
      /\ q.lost \/ (<<r, "API_KEY_AUTH_SUCCESS">> \in log2 <=> q.user # None /\ ByKey(q))
      /\ q.lost \/ <<r, "AUTHORIZATION_DENIED">> \in log2
      /\ <<r, "API_KEY_REVOKED">> \in log2 <=> <<r, "API_KEY_REVOKED">> \in log
  BY DEF Good, Log, Noted, KeyEvents
<1>6. Placed(p)
  BY DEF Placed, Good
<1>7. Identified(p, ks) /\ Recording(p, ks)
  BY DEF Identified, Recording, Outdoors, Indoors
<1>8. Log(r, p, ks, log2)
  BY <1>1, <1>3, <1>5 DEF Forbidden, Log, ByKey, Credential, Outdoors, Indoors, Good
<1>9. Late(p, ks)
  BY <1>1 DEF Late, Credential, Good
<1>10. Executing(p, ho)
  BY <1>1 DEF Executing
<1>11. Answers(p, ks)
  BY <1>1, <1>3 DEF Forbidden, Answers
<1>12. Good(r, p, ks, log2, ho)
  BY <1>6, <1>7, <1>8, <1>9, <1>10, <1>11 DEF Good
<1> QED
  BY <1>3, <1>4, <1>12 DEF Leads, p

----------------------------------------------------------------------------
(* The pool.                                                               *)

LEMMA HoldersFinite ==
  ASSUME TypeOK
  PROVE  IsFiniteSet(Holders) /\ Cardinality(Holders) \in Nat
BY PoolAssumption, FS_Subset, FS_CardinalityType DEF Holders

\* A step of r that leaves it without a connection.
LEMMA PoolReleased ==
  ASSUME IInv, NEW r \in Requests, NEW p \in Request, p.conn = FALSE,
         reqs' = [reqs EXCEPT ![r] = p],
         pool' = IF reqs[r].conn THEN pool - 1 ELSE pool
  PROVE  PoolCounts'
<1>1. IsFiniteSet(Holders) /\ Cardinality(Holders) \in Nat
  BY HoldersFinite DEF IInv
<1>2. reqs'[r] = p /\ \A s \in Requests : s # r => reqs'[s] = reqs[s]
  BY DEF IInv, TypeOK
<1>3. Holders' = Holders \ {r}
  BY <1>2 DEF Holders
<1>4. /\ r \in Holders => Cardinality(Holders \ {r}) = Cardinality(Holders) - 1
      /\ r \notin Holders => Holders \ {r} = Holders
  BY <1>1, FS_RemoveElement, ZenonT(30)
<1>5. r \in Holders <=> reqs[r].conn
  BY DEF Holders
<1>6. pool' = Cardinality(Holders') /\ pool' <= PoolSize
  <2>1. pool = Cardinality(Holders) /\ pool <= PoolSize /\ PoolSize \in Nat
    BY PoolAssumption DEF IInv, PoolCounts
  <2>2. CASE r \in Holders
    <3>1. pool' = pool - 1 /\ Cardinality(Holders') = Cardinality(Holders) - 1
      BY <1>3, <1>4, <1>5, <2>2
    <3> QED
      BY <1>1, <2>1, <3>1
  <2>3. CASE r \notin Holders
    <3>1. pool' = pool /\ Holders' = Holders
      BY <1>3, <1>4, <1>5, <2>3
    <3> QED
      BY <2>1, <3>1
  <2> QED
    BY <2>2, <2>3
<1>7. \A s \in Holders' : reqs'[s].pc \in DbPoints
  BY <1>2, <1>3 DEF IInv, PoolCounts, Holders
<1> QED
  BY <1>6, <1>7 DEF PoolCounts, DbPoints

LEMMA PoolTaken ==
  ASSUME IInv, NEW r \in Requests, Acquire(r)
  PROVE  PoolCounts'
<1> DEFINE p == [reqs[r] EXCEPT !.conn = TRUE]
<1>0. reqs[r] \in Request /\ TRUE \in BOOLEAN
  BY DEF IInv, TypeOK
<1>1. p.conn /\ p.pc = reqs[r].pc
  BY <1>0 DEF Request
<1>2. reqs'[r] = p /\ \A s \in Requests : s # r => reqs'[s] = reqs[s]
  BY DEF IInv, TypeOK, Acquire, Step
<1> HIDE DEF p
<1>3. IsFiniteSet(Holders) /\ Cardinality(Holders) \in Nat
  BY HoldersFinite DEF IInv
<1>4. Holders' = Holders \cup {r} /\ r \notin Holders
  BY <1>1, <1>2 DEF Holders, Acquire
<1>5. Cardinality(Holders \cup {r}) = Cardinality(Holders) + 1
  BY <1>3, <1>4, FS_AddElement
<1>6. pool' = Cardinality(Holders') /\ pool' <= PoolSize
  BY <1>3, <1>4, <1>5, PoolAssumption DEF IInv, PoolCounts, Acquire
<1>7. \A s \in Holders' : reqs'[s].pc \in DbPoints
  <2>1. \A s \in Holders : s \in Requests /\ s # r /\ reqs[s].pc \in DbPoints
    BY <1>4 DEF IInv, PoolCounts, Holders
  <2>2. reqs[r].pc \in DbPoints
    BY DEF Acquire
  <2> QED
    BY <1>1, <1>2, <1>4, <2>1, <2>2
<1> QED
  BY <1>6, <1>7 DEF PoolCounts, DbPoints

LEMMA PoolKept ==
  ASSUME IInv, NEW r \in Requests, NEW p \in Request, p.conn = reqs[r].conn,
         reqs[r].pc \notin DbPoints,
         reqs' = [reqs EXCEPT ![r] = p], pool' = pool
  PROVE  PoolCounts'
<1>1. reqs'[r] = p /\ \A s \in Requests : s # r => reqs'[s] = reqs[s]
  BY DEF IInv, TypeOK
<1>2. r \notin Holders /\ Holders' = Holders
  BY <1>1 DEF Holders, IInv, PoolCounts
<1> QED
  BY <1>1, <1>2 DEF IInv, PoolCounts, DbPoints, Holders

----------------------------------------------------------------------------
(* One step of one request.                                                *)

Remembers(r, q, log, p, log2) == \A k \in Keys : Shows(r, q, log, k) => Shows(r, p, log2, k)

\* What a step of r does to the keys and the log.
Keeps(r, p, log2) ==
    /\ keys' \in [Keys -> KeyRows] /\ KeysGood(keys') /\ Grows(keys, keys')
    /\ hash_order' = hash_order
    /\ \A s \in Requests : \A e : s # r => (<<s, e>> \in log2 <=> <<s, e>> \in audit)
    /\ Remembers(r, reqs[r], audit, p, log2)
    /\ \A k \in Keys : keys'[k].revoked => keys[k].revoked \/ Shows(r, p, log2, k)

LEMMA StepKeepsIInv ==
  ASSUME IInv, NEW r \in Requests, NEW p \in Request, Step(r, p), Keeps(r, p, audit'),
         Good(r, p, keys', audit', hash_order'), PoolCounts'
  PROVE  IInv'
<1>1. reqs'[r] = p /\ \A s \in Requests : s # r => reqs'[s] = reqs[s]
  BY DEF IInv, TypeOK, Step
<1>2. TypeOK'
  <2>1. reqs' \in [Requests -> Request]
    BY DEF IInv, TypeOK, Step
  <2> QED
    BY <2>1 DEF TypeOK, Keeps
<1>3. ASSUME NEW s \in Requests PROVE Good(s, reqs'[s], keys', audit', hash_order')
  <2>1. CASE s = r
    BY <1>1, <2>1
  <2>2. CASE s # r
    <3>1. reqs[s] \in Request /\ Good(s, reqs[s], keys, audit, hash_order)
      BY DEF IInv, TypeOK
    <3>2. Good(s, reqs[s], keys', audit, hash_order)
      BY <3>1, GoodGrows DEF Keeps
    <3>3. \A e : <<s, e>> \in audit' <=> <<s, e>> \in audit
      BY <2>2 DEF Keeps
    <3>4. Good(s, reqs[s], keys', audit', hash_order)
      BY <3>2, <3>3, GoodElsewhere
    <3> QED
      BY <1>1, <2>2, <3>4 DEF Keeps
  <2> QED
    BY <2>1, <2>2
<1>4. RevocationsShow'
  <2> SUFFICES ASSUME NEW k \in Keys, keys'[k].revoked
               PROVE  \E s \in Requests : Shows(s, reqs'[s], audit', k)
    BY DEF RevocationsShow
  <2>1. CASE Shows(r, p, audit', k)
    BY <1>1, <2>1
  <2>2. CASE keys[k].revoked
    <3>1. PICK s \in Requests : Shows(s, reqs[s], audit, k)
      BY <2>2 DEF IInv, RevocationsShow
    <3>2. CASE s = r
      BY <1>1, <3>1, <3>2 DEF Keeps, Remembers
    <3>3. CASE s # r
      <4>1. reqs'[s] = reqs[s]
        BY <1>1, <3>3
      <4>2. <<s, "API_KEY_REVOKED">> \in audit => <<s, "API_KEY_REVOKED">> \in audit'
        BY <3>3 DEF Keeps
      <4> QED
        BY <3>1, <4>1, <4>2 DEF Shows
    <3> QED
      BY <3>2, <3>3
  <2> QED
    BY <2>1, <2>2 DEF Keeps
<1>5. KeysGood(keys')
  BY DEF Keeps
<1> QED
  BY <1>2, <1>3, <1>4, <1>5 DEF IInv

\* A step that awaits nothing.
LEMMA LocalKeepsIInv ==
  ASSUME IInv, NEW r \in Requests, NEW p \in Request, Local(r, p), p.conn = reqs[r].conn,
         reqs[r].pc \notin DbPoints, Keeps(r, p, audit'),
         Good(r, p, keys', audit', hash_order')
  PROVE  IInv'
<1>1. Step(r, p) /\ pool' = pool
  BY DEF Local
<1>2. PoolCounts'
  BY <1>1, PoolKept DEF Step
<1> QED
  BY <1>1, <1>2, StepKeepsIInv

\* A step that gives its connection back, or fails with or without one.
LEMMA ReleaseKeepsIInv ==
  ASSUME IInv, NEW r \in Requests, NEW q \in Request, Finish(r, q) \/ Fail(r, q),
         Keeps(r, q, audit'), Good(r, q, keys', audit', hash_order')
  PROVE  IInv'
<1> DEFINE p == [q EXCEPT !.conn = FALSE]
<1>1. FALSE \in BOOLEAN
  OBVIOUS
<1>2. /\ p \in Request /\ Kept(p, q) /\ p.pc = q.pc /\ p.status = q.status
      /\ p.headers = q.headers /\ p.conn = FALSE
  BY <1>1, ConnIs
<1>3. Step(r, p) /\ pool' = IF reqs[r].conn THEN pool - 1 ELSE pool
  BY DEF Finish, Fail
<1> HIDE DEF p
<1>4. PoolCounts'
  BY <1>2, <1>3, PoolReleased DEF Step
<1>5. Good(r, p, keys', audit', hash_order')
  BY <1>2, GoodKept
<1>6. \A k \in Keys : Shows(r, q, audit', k) => Shows(r, p, audit', k)
  BY <1>2 DEF Shows, Kept
<1>7. Keeps(r, p, audit')
  BY <1>6 DEF Keeps, Remembers
<1> QED
  BY <1>2, <1>3, <1>4, <1>5, <1>7, StepKeepsIInv

\* q is the request q0 with what a step that is no audit notes in it first.
Follows(q0, q) ==
    \/ q0.pc = "idle"
    \/ /\ q0.pc # "audit" /\ q.plan = q0.plan /\ q.lost = q0.lost
       /\ q0.broke => q.broke

Quiet == keys' = keys /\ audit' = audit /\ hash_order' = hash_order

LEMMA QuietKeeps ==
  ASSUME IInv, Quiet, NEW r \in Requests, NEW q, NEW p, Follows(reqs[r], q),
         Leads(r, q, p, keys, audit, hash_order)
  PROVE  Keeps(r, p, audit') /\ p \in Request /\ Good(r, p, keys', audit', hash_order')
<1>1. keys' \in [Keys -> KeyRows] /\ KeysGood(keys')
  BY DEF Quiet, IInv, TypeOK
<1>2. Grows(keys, keys')
  BY DEF Quiet, Grows
<1>3. Remembers(r, reqs[r], audit, p, audit')
  BY DEF Remembers, Shows, Leads, Quiet, Follows
<1>4. /\ hash_order' = hash_order
      /\ \A s \in Requests : \A e : s # r => (<<s, e>> \in audit' <=> <<s, e>> \in audit)
      /\ \A k \in Keys : keys'[k].revoked => keys[k].revoked \/ Shows(r, p, audit', k)
  BY DEF Quiet
<1>5. p \in Request /\ Good(r, p, keys', audit', hash_order')
  BY DEF Leads, Quiet
<1> QED
  BY <1>1, <1>2, <1>3, <1>4, <1>5 DEF Keeps

LEMMA LocalLeads ==
  ASSUME IInv, Quiet, NEW r \in Requests, NEW q, NEW p, Follows(reqs[r], q),
         Leads(r, q, p, keys, audit, hash_order),
         q.conn = reqs[r].conn, reqs[r].pc \notin DbPoints, Local(r, p)
  PROVE  IInv'
<1>1. Keeps(r, p, audit') /\ p \in Request /\ Good(r, p, keys', audit', hash_order')
  BY QuietKeeps
<1>2. p.conn = reqs[r].conn
  BY DEF Leads
<1> QED
  BY <1>1, <1>2, LocalKeepsIInv

LEMMA ReleaseLeads ==
  ASSUME IInv, Quiet, NEW r \in Requests, NEW q, NEW p, Follows(reqs[r], q),
         Leads(r, q, p, keys, audit, hash_order), Finish(r, p) \/ Fail(r, p)
  PROVE  IInv'
<1>1. Keeps(r, p, audit') /\ p \in Request /\ Good(r, p, keys', audit', hash_order')
  BY QuietKeeps
<1> QED
  BY <1>1, ReleaseKeepsIInv

LEMMA TablesQuiet ==
  ASSUME UNCHANGED <<Tables, hash_order, outside>>
  PROVE  Quiet
BY DEF Tables, Quiet

----------------------------------------------------------------------------
(* Who is it?                                                              *)

LEMMA AuthenticateLeads ==
  ASSUME NEW r, NEW q, NEW ks, NEW log, NEW ho, Unknown(r, q, ks, log)
  PROVE  Leads(r, q, Authenticate(q), ks, log, ho)
<1>1. /\ q.plan \in ClientPlans /\ q.plan.key \in Keys \cup {None, "malformed"}
      /\ q.plan.bearer \in Users \cup {None, "bad", "gone"}
  BY DEF Unknown, ClientPlans
<1>2. CASE Credential(q) = "none"
  <2>1. Authenticate(q) = Goto(q, "handle")
    BY <1>2 DEF Authenticate, Credential
  <2>2. Leads(r, q, Goto(q, "handle"), ks, log, ho)
    BY <1>2, GotoUnknown
  <2> QED
    BY <2>1, <2>2
<1>3. CASE ByKey(q) /\ q.plan.key = "malformed"
  <2>1. Authenticate(q) = RefuseKey(q, "InvalidApiKeyError") /\ "InvalidApiKeyError" \in KeyErrors
    BY <1>3 DEF Authenticate, Credential, ByKey, KeyErrors
  <2> QED
    BY <2>1, RefuseUnknown
<1>4. CASE ByKey(q) /\ q.plan.key # "malformed"
  <2>1. Authenticate(q) = Goto(q, "key_row") /\ q.plan.key \in Keys /\ Credential(q) = "any"
    BY <1>1, <1>4 DEF Authenticate, Credential, ByKey
  <2>2. "key_row" \in Outdoors
    BY DEF Outdoors
  <2>3. Leads(r, q, Goto(q, "key_row"), ks, log, ho)
    BY <2>1, <2>2, GotoUnknown
  <2> QED
    BY <2>1, <2>3
<1>5. CASE Credential(q) # "none" /\ ~ByKey(q)
  <2>1. Authenticate(q) = resolve_jwt_user(q)
    BY <1>5 DEF Authenticate, Credential, ByKey
  <2>2. CASE q.plan.bearer \in {None, "bad"}
    <3>1. \E code \in Nat : Plain(code) /\ resolve_jwt_user(q) = Answer(q, code)
      BY <2>2, RaiseIs DEF resolve_jwt_user, Plain
    <3> QED
      BY <2>1, <3>1, AnswerUnknown, Zenon
  <2>3. CASE q.plan.bearer \notin {None, "bad"}
    <3>1. resolve_jwt_user(q) = Goto(q, "user_row") /\ q.plan.bearer \in Users \cup {"gone"}
      BY <1>1, <2>3 DEF resolve_jwt_user
    <3>2. "user_row" \in Outdoors
      BY DEF Outdoors
    <3>3. Leads(r, q, Goto(q, "user_row"), ks, log, ho)
      BY <1>5, <3>1, <3>2, GotoUnknown
    <3> QED
      BY <2>1, <3>1, <3>3
  <2> QED
    BY <2>2, <2>3
<1> QED
  BY <1>2, <1>3, <1>4, <1>5

LEMMA ArriveKeepsIInv ==
  ASSUME IInv, NEW r \in Requests, Arrive(r)
  PROVE  IInv'
<1> DEFINE q == reqs[r]
<1>1. q \in Request /\ Good(r, q, keys, audit, hash_order) /\ q.pc = "idle"
  BY DEF IInv, TypeOK, Arrive, At
<1>2. PICK plan \in Plans[r], blocked \in BOOLEAN :
        Local(r, IF blocked THEN Answer(Arrived(r, plan), 429) ELSE Authenticate(Arrived(r, plan)))
  BY DEF Arrive
<1>3. plan \in ClientPlans
  BY <1>2, PlansAssumption
<1>4. PICK b \in BOOLEAN : b = (plan.key \in Keys /\ keys[plan.key].revoked)
  <2>1. (plan.key \in Keys /\ keys[plan.key].revoked) \in BOOLEAN
    OBVIOUS
  <2> QED
    BY <2>1
<1> DEFINE a == [q EXCEPT !.plan = plan, !.late = b]
<1>5. Arrived(r, plan) = a
  BY <1>4, Zenon DEF Arrived
<1>6. /\ a \in Request /\ a.plan = plan /\ (a.late => b) /\ a.user = q.user
      /\ a.ran = q.ran /\ a.generation = q.generation /\ a.conn = q.conn
  <2> DEFINE p == [q EXCEPT !.plan = plan]
             c == [p EXCEPT !.late = b]
  <2>1. p \in Request
    BY <1>1, <1>3 DEF Request
  <2>2. /\ p.plan = plan /\ p.user = q.user /\ p.ran = q.ran
        /\ p.generation = q.generation /\ p.conn = q.conn
    BY <1>1 DEF Request
  <2>3. a = c
    BY <1>1 DEF Request
  <2> HIDE DEF p
  <2>4. c \in Request
    BY <2>1 DEF Request
  <2>5. /\ c.plan = p.plan /\ (c.late => b) /\ c.user = p.user /\ c.ran = p.ran
        /\ c.generation = p.generation /\ c.conn = p.conn
    BY <2>1 DEF Request
  <2> HIDE DEF a, c
  <2> QED
    BY <2>2, <2>3, <2>4, <2>5
<1>7. b => plan.key \in Keys /\ keys[plan.key].revoked
  BY <1>4, Zenon
<1> HIDE DEF a
<1>8. Unknown(r, a, keys, audit)
  <2>1. q.user = None /\ q.ran = None /\ q.generation = None
    BY <1>1 DEF Good, Identified, Executing, Outdoors
  <2>2. \A e \in Events : <<r, e>> \notin audit
    BY <1>1 DEF Good, Log, Outdoors
  <2> QED
    BY <1>3, <1>6, <1>7, <2>1, <2>2 DEF Unknown
<1>9. Quiet
  BY DEF Arrive, Tables, Quiet
<1>10. Follows(q, a) /\ q.pc \notin DbPoints
  BY <1>1 DEF Follows, DbPoints
<1>11. CASE blocked
  <2>1. \E code \in Nat : Plain(code) /\ Local(r, Answer(a, code))
    BY <1>2, <1>5, <1>11 DEF Plain
  <2>2. PICK code \in Nat : Plain(code) /\ Local(r, Answer(a, code))
    BY <2>1
  <2>3. Leads(r, a, Answer(a, code), keys, audit, hash_order)
    BY <1>8, <2>2, AnswerUnknown, Zenon
  <2> QED
    BY <1>6, <1>9, <1>10, <2>2, <2>3, LocalLeads, Zenon
<1>12. CASE ~blocked
  <2>1. Local(r, Authenticate(a))
    BY <1>2, <1>5, <1>12
  <2>2. Leads(r, a, Authenticate(a), keys, audit, hash_order)
    BY <1>8, AuthenticateLeads
  <2> QED
    BY <1>6, <1>9, <1>10, <2>1, <2>2, LocalLeads, Zenon
<1> QED
  BY <1>11, <1>12

\* What every step knows of its request.
LEMMA GoodHere ==
  ASSUME IInv, NEW r \in Requests
  PROVE  reqs[r] \in Request /\ Good(r, reqs[r], keys, audit, hash_order)
BY DEF IInv, TypeOK

LEMMA FollowsItself ==
  ASSUME NEW q, q.pc # "audit"
  PROVE  Follows(q, q)
BY DEF Follows

LEMMA AcquireKeepsIInv ==
  ASSUME IInv, NEW r \in Requests, Acquire(r)
  PROVE  IInv'
<1> DEFINE q == reqs[r]
           p == [q EXCEPT !.conn = TRUE]
<1>1. q \in Request /\ Good(r, q, keys, audit, hash_order)
  BY GoodHere
<1>2. TRUE \in BOOLEAN
  OBVIOUS
<1>3. p \in Request /\ Kept(p, q) /\ p.pc = q.pc /\ p.status = q.status /\ p.headers = q.headers
  BY <1>1, <1>2, ConnIs, Zenon
<1>4. Quiet /\ Step(r, p)
  BY DEF Acquire, Tables, Quiet
<1> HIDE DEF p
<1>5. Good(r, p, keys', audit', hash_order')
  BY <1>1, <1>3, <1>4, GoodKept DEF Quiet
<1>6. Keeps(r, p, audit')
  <2>1. keys' \in [Keys -> KeyRows] /\ KeysGood(keys') /\ Grows(keys, keys')
    BY <1>4 DEF Quiet, IInv, TypeOK, Grows
  <2>2. Remembers(r, q, audit, p, audit')
    BY <1>3, <1>4 DEF Remembers, Shows, Kept, Quiet
  <2> QED
    BY <1>4, <2>1, <2>2 DEF Keeps, Quiet
<1> QED
  BY <1>3, <1>4, <1>5, <1>6, PoolTaken, StepKeepsIInv

LEMMA KeyRowKeepsIInv ==
  ASSUME IInv, NEW r \in Requests, KeyRow(r)
  PROVE  IInv'
<1> DEFINE q == reqs[r]
           row == keys[q.plan.key]
<1>1. q \in Request /\ Good(r, q, keys, audit, hash_order) /\ q.pc = "key_row"
  BY GoodHere DEF KeyRow, At
<1>2. Unknown(r, q, keys, audit)
  BY <1>1, OutdoorsUnknown DEF Outdoors
<1>3. q.plan.key \in Keys /\ Credential(q) = "any"
  BY <1>1 DEF Good, Identified
<1>4. Quiet
  BY DEF KeyRow, Tables, Quiet
<1>5. Follows(q, q)
  BY <1>1, FollowsItself
<1>6. CASE ~row.exists \/ row.revoked \/ row.expired
  <2>1. PICK error \in KeyErrors : Finish(r, RefuseKey(q, error))
    BY <1>6 DEF KeyRow, KeyErrors
  <2>2. Leads(r, q, RefuseKey(q, error), keys, audit, hash_order)
    BY <1>2, RefuseUnknown
  <2> QED
    BY <1>4, <1>5, <2>1, <2>2, ReleaseLeads
<1>7. CASE ~(~row.exists \/ row.revoked \/ row.expired)
  <2> DEFINE q1 == [q EXCEPT !.row = row]
  <2>1. Finish(r, Goto(q1, "key_user"))
    BY <1>7 DEF KeyRow
  <2>2. row \in KeyRows /\ row.owner \in Users /\ ~row.revoked
    BY <1>3, <1>7 DEF IInv, TypeOK, KeysGood
  <2> HIDE DEF row
  <2>3. q1 \in Request
    BY <1>1, <2>2 DEF Request
  <2>4. /\ q1.row = row /\ q1.plan = q.plan /\ q1.user = q.user /\ q1.ran = q.ran
        /\ q1.generation = q.generation /\ q1.late = q.late /\ q1.lost = q.lost
        /\ q1.broke = q.broke
    BY <1>1 DEF Request
  <2> HIDE DEF q1
  <2>5. Unknown(r, q1, keys, audit)
    BY <1>2, <2>3, <2>4 DEF Unknown
  <2>6. ~q1.late
    BY <1>2, <2>2, <2>4 DEF Unknown, row
  <2>7. "key_user" \in Outdoors
    BY DEF Outdoors
  <2>8. Leads(r, q1, Goto(q1, "key_user"), keys, audit, hash_order)
    BY <1>3, <2>2, <2>4, <2>5, <2>6, <2>7, GotoUnknown DEF Credential
  <2>9. Follows(q, q1)
    BY <1>1, <2>4 DEF Follows
  <2> QED
    BY <1>4, <2>1, <2>8, <2>9, ReleaseLeads
<1> QED
  BY <1>6, <1>7

\* The key is accepted: its owner is the caller.
LEMMA KeyAcceptedLeads ==
  ASSUME NEW r, NEW q, NEW ks, NEW log, NEW ho, Unknown(r, q, ks, log),
         ByKey(q), q.row.owner \in Users, ~q.late
  PROVE  Leads(r, q, KeyAccepted(q), ks, log, ho)
<1> DEFINE q1 == [q EXCEPT !.user = q.row.owner]
           p == KeyAccepted(q)
<1>1. q1 \in Request
  BY DEF Unknown, Request
<1>2. /\ q1.user = q.row.owner /\ q1.plan = q.plan /\ q1.ran = q.ran /\ q1.conn = q.conn
      /\ q1.generation = q.generation /\ q1.late = q.late /\ q1.lost = q.lost
      /\ q1.broke = q.broke
  BY DEF Unknown, Request
<1> HIDE DEF q1
<1>3. "API_KEY_AUTH_SUCCESS" \in Events
  BY DEF Events, KeyEvents
<1>4. /\ p \in Request /\ p.pc = "audit" /\ p.event = "API_KEY_AUTH_SUCCESS"
      /\ p.plan = q.plan /\ p.user = q.row.owner /\ p.conn = q.conn
      /\ p.generation = q.generation /\ p.ran = q.ran /\ p.late = q.late
      /\ p.lost = q.lost /\ p.broke = q.broke
  BY <1>1, <1>2, <1>3, RecordIs DEF KeyAccepted, q1
<1> HIDE DEF p
<1> USE <1>4 DEF Unknown
<1>5. Placed(p)
  BY DEF Placed
<1>6. Identified(p, ks)
  BY DEF Identified, Outdoors, Indoors
<1>7. Recording(p, ks)
  BY NoneAssumption DEF Recording, Events, KeyEvents, ByKey, Credential
<1>8. Log(r, p, ks, log)
  BY DEF Log, Events, KeyEvents, Outdoors, Indoors
<1>9. Late(p, ks) /\ Executing(p, ho) /\ Answers(p, ks)
  BY DEF Late, Executing, Answers
<1> QED
  BY <1>5, <1>6, <1>7, <1>8, <1>9 DEF Good, Leads, p

LEMMA KeyUserKeepsIInv ==
  ASSUME IInv, NEW r \in Requests, KeyUser(r)
  PROVE  IInv'
<1> DEFINE q == reqs[r]
<1>1. q \in Request /\ Good(r, q, keys, audit, hash_order) /\ q.pc = "key_user"
  BY GoodHere DEF KeyUser, At
<1>2. Unknown(r, q, keys, audit)
  BY <1>1, OutdoorsUnknown DEF Outdoors
<1>3. /\ q.plan.key \in Keys /\ Credential(q) = "any" /\ ByKey(q)
      /\ q.row \in KeyRows /\ q.row.owner \in Users /\ ~q.late
  BY <1>1, NoneAssumption DEF Good, Identified, Late, ByKey
<1>4. Quiet
  BY DEF KeyUser, Tables, Quiet
<1>5. Follows(q, q)
  BY <1>1, FollowsItself
<1>6. CASE ~active[q.row.owner]
  <2>1. Finish(r, RefuseKey(q, "InactiveUserError")) /\ "InactiveUserError" \in KeyErrors
    BY <1>6 DEF KeyUser, KeyErrors
  <2>2. Leads(r, q, RefuseKey(q, "InactiveUserError"), keys, audit, hash_order)
    BY <1>2, <2>1, RefuseUnknown
  <2> QED
    BY <1>4, <1>5, <2>1, <2>2, ReleaseLeads
<1>7. CASE active[q.row.owner] /\ q.row.recent
  <2>1. Finish(r, KeyAccepted(q))
    BY <1>7 DEF KeyUser
  <2>2. Leads(r, q, KeyAccepted(q), keys, audit, hash_order)
    BY <1>2, <1>3, KeyAcceptedLeads
  <2> QED
    BY <1>4, <1>5, <2>1, <2>2, ReleaseLeads
<1>8. CASE active[q.row.owner] /\ ~q.row.recent
  <2>1. Finish(r, Goto(q, "touch")) /\ "touch" \in Outdoors
    BY <1>8 DEF KeyUser, Outdoors
  <2>2. Leads(r, q, Goto(q, "touch"), keys, audit, hash_order)
    BY <1>2, <1>3, <2>1, GotoUnknown
  <2> QED
    BY <1>4, <1>5, <2>1, <2>2, ReleaseLeads
<1> QED
  BY <1>6, <1>7, <1>8

----------------------------------------------------------------------------
(* Steps that write a key.                                                 *)

\* The keys change, and a key newly revoked shows in p.
Rekeys(r, p) ==
    /\ keys' \in [Keys -> KeyRows] /\ KeysGood(keys') /\ Grows(keys, keys')
    /\ \A k \in Keys : keys'[k].revoked => keys[k].revoked \/ Shows(r, p, audit', k)

LEMMA RekeyLeads ==
  ASSUME IInv, NEW r \in Requests, NEW q, NEW p, Rekeys(r, p),
         audit' = audit, hash_order' = hash_order, Follows(reqs[r], q),
         Leads(r, q, p, keys', audit, hash_order), Finish(r, p) \/ Fail(r, p)
  PROVE  IInv'
<1>1. Remembers(r, reqs[r], audit, p, audit')
  BY DEF Remembers, Shows, Leads, Follows
<1>2. Keeps(r, p, audit')
  BY <1>1 DEF Keeps, Rekeys
<1>3. p \in Request /\ Good(r, p, keys', audit', hash_order')
  BY DEF Leads
<1> QED
  BY <1>2, <1>3, ReleaseKeepsIInv

LEMMA OneKey ==
  ASSUME NEW ks \in [Keys -> KeyRows], NEW k \in Keys, NEW row \in KeyRows,
         KeysGood(ks), NEW ks2, ks2 = [ks EXCEPT ![k] = row],
         row.exists => row.owner \in Users, row.revoked => row.exists,
         ks[k].exists => row.exists, ks[k].revoked => row.revoked
  PROVE  /\ ks2 \in [Keys -> KeyRows] /\ KeysGood(ks2) /\ Grows(ks, ks2)
         /\ ks2[k] = row /\ \A j \in Keys : j # k => ks2[j] = ks[j]
BY DEF KeysGood, Grows

\* Noting the use or the expiry of a key changes nothing else.
LEMMA TouchedKeys ==
  ASSUME IInv, NEW k \in Keys, NEW b \in BOOLEAN,
         \/ keys' = [keys EXCEPT ![k].recent = b]
         \/ keys' = [keys EXCEPT ![k].expired = b]
  PROVE  /\ keys' \in [Keys -> KeyRows] /\ KeysGood(keys') /\ Grows(keys, keys')
         /\ \A j \in Keys : keys'[j].revoked => keys[j].revoked
<1>1. keys \in [Keys -> KeyRows] /\ KeysGood(keys) /\ keys[k] \in KeyRows
  BY DEF IInv, TypeOK
<1>2. \E row \in KeyRows : /\ keys' = [keys EXCEPT ![k] = row]
                           /\ row.exists = keys[k].exists /\ row.owner = keys[k].owner
                           /\ row.revoked = keys[k].revoked
  <2>1. CASE keys' = [keys EXCEPT ![k].recent = b]
    <3> DEFINE row == [keys[k] EXCEPT !.recent = b]
    <3>1. keys' = [keys EXCEPT ![k] = row]
      BY <2>1
    <3>2. /\ row \in KeyRows /\ row.exists = keys[k].exists /\ row.owner = keys[k].owner
          /\ row.revoked = keys[k].revoked
      BY <1>1 DEF KeyRows
    <3> QED
      BY <3>1, <3>2
  <2>2. CASE keys' = [keys EXCEPT ![k].expired = b]
    <3> DEFINE row == [keys[k] EXCEPT !.expired = b]
    <3>1. keys' = [keys EXCEPT ![k] = row]
      BY <2>2
    <3>2. /\ row \in KeyRows /\ row.exists = keys[k].exists /\ row.owner = keys[k].owner
          /\ row.revoked = keys[k].revoked
      BY <1>1 DEF KeyRows
    <3> QED
      BY <3>1, <3>2
  <2> QED
    BY <2>1, <2>2
<1>3. PICK row \in KeyRows : /\ keys' = [keys EXCEPT ![k] = row]
                             /\ row.exists = keys[k].exists /\ row.owner = keys[k].owner
                             /\ row.revoked = keys[k].revoked
  BY <1>2
<1>4. /\ row.exists => row.owner \in Users
      /\ row.revoked => row.exists
      /\ keys[k].exists => row.exists
      /\ keys[k].revoked => row.revoked
  BY <1>1, <1>3 DEF KeysGood
<1>5. /\ keys' \in [Keys -> KeyRows] /\ KeysGood(keys') /\ Grows(keys, keys')
      /\ keys'[k] = row /\ \A j \in Keys : j # k => keys'[j] = keys[j]
  BY <1>1, <1>3, <1>4, OneKey
<1> QED
  BY <1>3, <1>5

\* The caller of r, at an outdoor point, whatever happened to the keys.
LEMMA UnknownGrows ==
  ASSUME IInv, NEW r \in Requests, Grows(keys, keys'), reqs[r].pc \in Outdoors \ {"idle"}
  PROVE  Unknown(r, reqs[r], keys', audit)
<1>1. Good(r, reqs[r], keys', audit, hash_order)
  BY GoodHere, GoodGrows
<1> QED
  BY <1>1, GoodHere, OutdoorsUnknown

LEMMA TouchKeepsIInv ==
  ASSUME IInv, NEW r \in Requests, Touch(r)
  PROVE  IInv'
<1> DEFINE q == reqs[r]
<1>1. q \in Request /\ Good(r, q, keys, audit, hash_order) /\ q.pc = "touch"
  BY GoodHere DEF Touch, At
<1>2. /\ q.plan.key \in Keys /\ ByKey(q) /\ q.row.owner \in Users /\ ~q.late
  BY <1>1, NoneAssumption DEF Good, Identified, Late, ByKey
<1>3. TRUE \in BOOLEAN /\ keys' = [keys EXCEPT ![q.plan.key].recent = TRUE]
  BY DEF Touch, touch_api_key_last_used
<1>4. /\ keys' \in [Keys -> KeyRows] /\ KeysGood(keys') /\ Grows(keys, keys')
      /\ \A j \in Keys : keys'[j].revoked => keys[j].revoked
  BY <1>2, <1>3, TouchedKeys, Zenon
<1>5. Unknown(r, q, keys', audit)
  BY <1>1, <1>4, UnknownGrows DEF Outdoors
<1>6. Leads(r, q, KeyAccepted(q), keys', audit, hash_order)
  BY <1>2, <1>5, KeyAcceptedLeads
<1>7. Rekeys(r, KeyAccepted(q))
  BY <1>4 DEF Rekeys
<1>8. Follows(q, q)
  BY <1>1, FollowsItself
<1> QED
  BY <1>6, <1>7, <1>8, RekeyLeads DEF Touch

LEMMA UserRowKeepsIInv ==
  ASSUME IInv, NEW r \in Requests, UserRow(r)
  PROVE  IInv'
<1> DEFINE q == reqs[r]
<1>1. q \in Request /\ Good(r, q, keys, audit, hash_order) /\ q.pc = "user_row"
  BY GoodHere DEF UserRow, At
<1>2. Unknown(r, q, keys, audit)
  BY <1>1, OutdoorsUnknown DEF Outdoors
<1>3. q.plan.bearer \in Users \cup {"gone"} /\ ~ByKey(q) /\ Credential(q) # "none"
  BY <1>1 DEF Good, Identified
<1>4. Quiet
  BY DEF UserRow, Tables, Quiet
<1>5. CASE q.plan.bearer = "gone" \/ ~active[q.plan.bearer]
  <2>1. \E code \in Nat : Plain(code) /\ Finish(r, Answer(q, code))
    BY <1>5, RaiseIs DEF UserRow, Plain
  <2>2. PICK code \in Nat : Plain(code) /\ Finish(r, Answer(q, code))
    BY <2>1
  <2>3. Leads(r, q, Answer(q, code), keys, audit, hash_order)
    BY <1>2, <2>2, AnswerUnknown, Zenon
  <2>4. Follows(q, q)
    BY <1>1, FollowsItself
  <2> QED
    BY <1>4, <2>2, <2>3, <2>4, ReleaseLeads, Zenon
<1>6. CASE q.plan.bearer # "gone" /\ active[q.plan.bearer]
  <2> DEFINE q1 == [q EXCEPT !.user = q.plan.bearer]
  <2>1. Finish(r, Authorize(q1))
    BY <1>6 DEF UserRow
  <2>2. q1 \in Request
    BY <1>1, <1>3, <1>6 DEF Request
  <2>3. /\ q1.user = q.plan.bearer /\ q1.plan = q.plan /\ q1.ran = q.ran
        /\ q1.generation = q.generation /\ q1.late = q.late /\ q1.lost = q.lost
        /\ q1.broke = q.broke
    BY <1>1 DEF Request
  <2> HIDE DEF q1
  <2>4. ~q.late \/ Credential(q) # "any"
    BY <1>1 DEF Good, Late
  <2>5. q1.user # None
    BY <1>3, <1>6, <2>3, NoneAssumption
  <2>6. Known(r, q1, keys, audit)
    BY <1>2, <1>3, <2>2, <2>3, <2>4, <2>5 DEF Known, Unknown, Events, KeyEvents, ByKey, Credential
  <2>7. Leads(r, q1, Authorize(q1), keys, audit, hash_order)
    BY <1>2, <2>3, <2>5, <2>6, AuthorizeKnown DEF Unknown
  <2>8. Follows(q, q1)
    BY <1>1, <2>3 DEF Follows
  <2> QED
    BY <1>4, <2>1, <2>7, <2>8, ReleaseLeads
<1> QED
  BY <1>5, <1>6

----------------------------------------------------------------------------
(* The log.                                                                *)

LEMMA ResumeLeads ==
  ASSUME NEW r, NEW q \in Request, NEW ks, NEW log, NEW log2, NEW ho,
         Good(r, q, ks, log, ho), Noted(r, q, log, log2), q.pc = "audit"
  PROVE  Leads(r, q, Resume(q), ks, log2, ho)
<1>1. q.event \in Events
  BY DEF Good, Recording
<1>2. CASE q.event = "API_KEY_AUTH_FAILURE"
  BY <1>2, RefusedResumes
<1>3. CASE q.event = "API_KEY_AUTH_SUCCESS"
  BY <1>3, AcceptedResumes
<1>4. CASE q.event \in {"API_KEY_CREATED", "API_KEY_REVOKED"}
  BY <1>4, KnownResumes
<1>5. CASE q.event = "AUTHORIZATION_DENIED"
  BY <1>5, DeniedResumes
<1> QED
  BY <1>1, <1>2, <1>3, <1>4, <1>5 DEF Events, KeyEvents

\* The request's event was written, or q notes that it may be lost.
LEMMA AuditLeads ==
  ASSUME IInv, NEW r \in Requests, NEW q \in Request,
         reqs[r].pc = "audit", q.pc = "audit", q.plan = reqs[r].plan, q.event = reqs[r].event,
         reqs[r].lost => q.lost, reqs[r].broke => q.broke,
         Good(r, q, keys, audit, hash_order), Noted(r, q, audit, audit'),
         keys' = keys, hash_order' = hash_order,
         Finish(r, Resume(q)) \/ Fail(r, Resume(q))
  PROVE  IInv'
<1> DEFINE p == Resume(q)
<1>1. Leads(r, q, p, keys, audit', hash_order)
  BY ResumeLeads
<1> HIDE DEF p
<1>2. keys' \in [Keys -> KeyRows] /\ KeysGood(keys') /\ Grows(keys, keys')
  BY DEF IInv, TypeOK, Grows
<1>3. \A s \in Requests : \A e : s # r => (<<s, e>> \in audit' <=> <<s, e>> \in audit)
  BY DEF Noted
<1>4. Remembers(r, reqs[r], audit, p, audit')
  BY <1>1 DEF Remembers, Shows, Leads, Noted
<1>5. Keeps(r, p, audit')
  BY <1>2, <1>3, <1>4 DEF Keeps
<1>6. p \in Request /\ Good(r, p, keys', audit', hash_order')
  BY <1>1 DEF Leads
<1> QED
  BY <1>5, <1>6, ReleaseKeepsIInv DEF p

LEMMA AuditKeepsIInv ==
  ASSUME IInv, NEW r \in Requests, Audit(r)
  PROVE  IInv'
<1>1. reqs[r] \in Request /\ Good(r, reqs[r], keys, audit, hash_order) /\ reqs[r].pc = "audit"
  BY GoodHere DEF Audit, At
<1>2. Noted(r, reqs[r], audit, audit')
  BY DEF Noted, Audit
<1>3. keys' = keys /\ hash_order' = hash_order /\ Finish(r, Resume(reqs[r]))
  BY DEF Audit
<1> QED
  BY <1>1, <1>2, <1>3, AuditLeads

LEMMA AuditFailsKeepsIInv ==
  ASSUME IInv, NEW r \in Requests, AuditFails(r)
  PROVE  IInv'
<1> DEFINE q == reqs[r]
           q1 == [q EXCEPT !.lost = TRUE]
<1>1. q \in Request /\ Good(r, q, keys, audit, hash_order) /\ q.pc = "audit"
  BY GoodHere DEF AuditFails, At
<1>2. q1 \in Request
  BY <1>1 DEF Request
<1>3. /\ q1.lost /\ q1.pc = "audit" /\ q1.plan = q.plan /\ q1.user = q.user /\ q1.row = q.row
      /\ q1.event = q.event /\ q1.error = q.error /\ q1.generation = q.generation
      /\ q1.ran = q.ran /\ q1.late = q.late /\ q1.broke = q.broke
  BY <1>1 DEF Request
<1>4. keys' = keys /\ hash_order' = hash_order /\ Fail(r, Resume(q1))
  BY DEF AuditFails
<1>5. audit' = audit \/ audit' = audit \cup {<<r, q.event>>}
  BY DEF AuditFails
<1> HIDE DEF q1
<1>6. Noted(r, q1, audit, audit')
  BY <1>3, <1>5 DEF Noted
<1>7. Good(r, q1, keys, audit, hash_order)
  <2> USE <1>1, <1>3 DEF Good, ByKey, Credential
  <2>1. Placed(q1) /\ Identified(q1, keys)
    BY DEF Placed, Identified, Outdoors, Indoors
  <2>2. Recording(q1, keys)
    BY DEF Recording
  <2>3. Log(r, q1, keys, audit)
    BY DEF Log, Outdoors, Indoors
  <2>4. Late(q1, keys)
    BY DEF Late
  <2>5. Executing(q1, hash_order) /\ Answers(q1, keys)
    BY DEF Executing, Answers
  <2> QED
    BY <2>1, <2>2, <2>3, <2>4, <2>5
<1>8. reqs[r].lost => q1.lost
  BY <1>3
<1>9. reqs[r].broke => q1.broke
  BY <1>3
<1> QED
  BY <1>1, <1>2, <1>3, <1>4, <1>6, <1>7, <1>8, <1>9, AuditLeads

----------------------------------------------------------------------------
(* Handlers that answer at once, or go on to their first operation.        *)

LEMMA HandlerKnown ==
  ASSUME IInv, NEW r \in Requests, reqs[r].pc \in {"limit", "handle"}
  PROVE  /\ reqs[r] \in Request /\ Known(r, reqs[r], keys, audit)
         /\ reqs[r].ran = None /\ reqs[r].generation = None
         /\ Follows(reqs[r], reqs[r]) /\ reqs[r].pc \notin DbPoints
<1>1. reqs[r].pc \in Indoors /\ reqs[r].pc # "execute" /\ reqs[r].pc # "audit"
  BY DEF Indoors
<1> QED
  BY <1>1, GoodHere, IndoorsKnown, FollowsItself DEF DbPoints

\* An answer that depends on nothing but the request.
LEMMA AnswersAtOnce ==
  ASSUME IInv, NEW r \in Requests, reqs[r].pc \in {"limit", "handle"}, Quiet,
         NEW code \in Nat, Fits(reqs[r], keys, code), Local(r, Answer(reqs[r], code))
  PROVE  IInv'
<1>1. /\ Known(r, reqs[r], keys, audit) /\ reqs[r].ran = None
      /\ Follows(reqs[r], reqs[r]) /\ reqs[r].pc \notin DbPoints
  BY HandlerKnown
<1>2. Leads(r, reqs[r], Answer(reqs[r], code), keys, audit, hash_order)
  BY <1>1, AnswerKnown, Zenon
<1> QED
  BY <1>1, <1>2, LocalLeads, Zenon

LEMMA GoesAtOnce ==
  ASSUME IInv, NEW r \in Requests, reqs[r].pc \in {"limit", "handle"}, Quiet,
         NEW c \in Indoors, c # "execute", c # "revoke",
         c = "create" => RouteOf(r) = "create_api_key",
         c = "find_key" => RouteOf(r) = "revoke_api_key",
         Local(r, Goto(reqs[r], c))
  PROVE  IInv'
<1>1. /\ Known(r, reqs[r], keys, audit) /\ reqs[r].ran = None /\ reqs[r].generation = None
      /\ Follows(reqs[r], reqs[r]) /\ reqs[r].pc \notin DbPoints
  BY HandlerKnown
<1>2. Leads(r, reqs[r], Goto(reqs[r], c), keys, audit, hash_order)
  BY <1>1, GotoKnown DEF RouteOf
<1> QED
  BY <1>1, <1>2, LocalLeads, Zenon

LEMMA FailsAtOnce ==
  ASSUME IInv, NEW r \in Requests, reqs[r].pc = "handle", Quiet,
         Explained(reqs[r]), Local(r, Unhandled(reqs[r]))
  PROVE  IInv'
<1>1. /\ Known(r, reqs[r], keys, audit) /\ reqs[r].ran = None /\ reqs[r].generation = None
      /\ Follows(reqs[r], reqs[r]) /\ reqs[r].pc \notin DbPoints
  BY HandlerKnown
<1>2. Leads(r, reqs[r], Unhandled(reqs[r]), keys, audit, hash_order)
  BY <1>1, UnhandledKnown
<1> QED
  BY <1>1, <1>2, LocalLeads, Zenon

LEMMA LimitKeepsIInv ==
  ASSUME IInv, NEW r \in Requests, check_query_rate_limit(r)
  PROVE  IInv'
<1>1. reqs[r].pc \in {"limit", "handle"} /\ Quiet
  BY DEF check_query_rate_limit, At, Tables, Quiet
<1>2. CASE Local(r, Goto(reqs[r], "handle"))
  BY <1>1, <1>2, GoesAtOnce DEF Indoors
<1>3. CASE \E code \in Nat : Fits(reqs[r], keys, code) /\ Local(r, Answer(reqs[r], code))
  BY <1>1, <1>3, AnswersAtOnce, Zenon
<1>4. reqs[r].generation = None
  BY <1>1, HandlerKnown
<1>5. Local(r, Answer(reqs[r], 429)) =>
        \E code \in Nat : Fits(reqs[r], keys, code) /\ Local(r, Answer(reqs[r], code))
  BY <1>4 DEF Fits
<1> QED
  BY <1>2, <1>3, <1>5 DEF check_query_rate_limit

\* q is q0 with what its answer is made of.
Alike(q, q0) ==
    /\ q \in Request /\ q.conn = q0.conn /\ q.plan = q0.plan /\ q.user = q0.user
    /\ q.late = q0.late /\ q.lost = q0.lost /\ q.broke = q0.broke

LEMMA AlikeKnown ==
  ASSUME NEW r, NEW q0, NEW q, NEW ks, NEW log, Known(r, q0, ks, log), Alike(q, q0),
         q0.pc # "audit"
  PROVE  Known(r, q, ks, log) /\ Follows(q0, q)
<1>1. Known(r, q, ks, log)
  BY DEF Known, Alike, ByKey, Credential
<1>2. Follows(q0, q)
  BY DEF Alike, Follows
<1> QED
  BY <1>1, <1>2

LEMMA AnswerLeads ==
  ASSUME IInv, NEW r \in Requests, reqs[r].pc \in Indoors, NEW q, Alike(q, reqs[r]),
         q.ran # None => Reading(q.ran, q, hash_order),
         NEW code \in Nat, Fits(q, keys, code)
  PROVE  /\ Leads(r, q, Answer(q, code), keys, audit, hash_order)
         /\ Follows(reqs[r], q) /\ q.conn = reqs[r].conn
<1>1. reqs[r].pc # "audit" /\ q.conn = reqs[r].conn
  BY DEF Indoors, Alike
<1>2. Known(r, reqs[r], keys, audit)
  BY GoodHere, IndoorsKnown
<1>3. Known(r, q, keys, audit) /\ Follows(reqs[r], q)
  BY <1>1, <1>2, AlikeKnown
<1> QED
  BY <1>1, <1>3, AnswerKnown, Zenon

LEMMA LocalAnswer ==
  ASSUME IInv, NEW r \in Requests, reqs[r].pc = "handle", NEW q, Alike(q, reqs[r]),
         q.ran = None, NEW code \in Nat, Fits(q, keys, code), Quiet, Local(r, Answer(q, code))
  PROVE  IInv'
<1>1. reqs[r].pc \in Indoors /\ reqs[r].pc \notin DbPoints
  BY DEF Indoors, DbPoints
<1>2. /\ Leads(r, q, Answer(q, code), keys, audit, hash_order)
      /\ Follows(reqs[r], q) /\ q.conn = reqs[r].conn
  BY <1>1, AnswerLeads, Zenon
<1> QED
  BY <1>1, <1>2, LocalLeads, Zenon

LEMMA ReleaseAnswer ==
  ASSUME IInv, NEW r \in Requests, reqs[r].pc \in Indoors, NEW q, Alike(q, reqs[r]),
         q.ran # None => Reading(q.ran, q, hash_order),
         NEW code \in Nat, Fits(q, keys, code), Quiet,
         Finish(r, Answer(q, code)) \/ Fail(r, Answer(q, code))
  PROVE  IInv'
<1>1. /\ Leads(r, q, Answer(q, code), keys, audit, hash_order) /\ Follows(reqs[r], q)
  BY AnswerLeads, Zenon
<1> QED
  BY <1>1, ReleaseLeads, Zenon

LEMMA OutcomeIs ==
  ASSUME NEW q \in Request, NEW outcome \in Outcomes
  PROVE  LET p == [q EXCEPT !.outcome = outcome]
         IN  Alike(p, q) /\ p.ran = q.ran /\ p.generation = q.generation
<1>1. [q EXCEPT !.outcome = outcome] \in Request
  BY DEF Request
<1> QED
  BY <1>1 DEF Alike, Request

LEMMA AlikeItself ==
  ASSUME NEW q \in Request
  PROVE  Alike(q, q)
BY DEF Alike

LEMMA FormatKeepsIInv ==
  ASSUME IInv, NEW r \in Requests, format_result(r)
  PROVE  IInv'
<1>1. reqs[r].pc \in {"limit", "handle"} /\ Quiet
  BY DEF format_result, At, Tables, Quiet
<1>2. reqs[r].generation = None
  BY <1>1, HandlerKnown
<1>3. \E code \in Nat : Fits(reqs[r], keys, code) /\ Local(r, Answer(reqs[r], code))
  <2>1. Local(r, Answer(reqs[r], 200)) \/ Local(r, Answer(reqs[r], 422))
    BY RaiseIs DEF format_result
  <2>2. Fits(reqs[r], keys, 200) /\ Fits(reqs[r], keys, 422)
    BY <1>2 DEF Fits
  <2> QED
    BY <2>1, <2>2
<1> QED
  BY <1>1, <1>3, AnswersAtOnce, Zenon

LEMMA ImmediateKeepsIInv ==
  ASSUME IInv, NEW r \in Requests, Immediate(r)
  PROVE  IInv'
<1>1. reqs[r].pc \in {"limit", "handle"} /\ Quiet
  BY DEF Immediate, At, Tables, Quiet
<1>2. reqs[r].generation = None
  BY <1>1, HandlerKnown
<1>3. \E code \in Nat : Fits(reqs[r], keys, code) /\ Local(r, Answer(reqs[r], code))
  BY <1>2 DEF Fits, Immediate
<1> QED
  BY <1>1, <1>3, AnswersAtOnce, Zenon

LEMMA OperateKeepsIInv ==
  ASSUME IInv, NEW r \in Requests, Operate(r)
  PROVE  IInv'
<1>1. reqs[r].pc \in {"limit", "handle"} /\ Quiet
  BY DEF Operate, At, Tables, Quiet
<1> DEFINE c == FirstOperation[RouteOf(r)]
<1>2. /\ c \in Indoors /\ c # "execute" /\ c # "revoke"
      /\ c = "create" => RouteOf(r) = "create_api_key"
      /\ c = "find_key" => RouteOf(r) = "revoke_api_key"
  BY DEF Operate, FirstOperation, Indoors
<1>3. Local(r, Goto(reqs[r], c))
  BY DEF Operate
<1> HIDE DEF c
<1> QED
  BY <1>1, <1>2, <1>3, GoesAtOnce

LEMMA RepairKeepsIInv ==
  ASSUME IInv, NEW r \in Requests, repair_sql(r)
  PROVE  IInv'
<1>1. reqs[r].pc \in {"limit", "handle"} /\ reqs[r].pc = "handle" /\ Quiet
  BY DEF repair_sql, At, Tables, Quiet
<1>2. reqs[r].generation = None
  BY <1>1, HandlerKnown
<1>3. PICK raised \in IF reqs[r].plan.question = "empty" THEN {"EmptyQuestionError"}
                      ELSE {None, "LLMError"} :
        Local(r, IF raised = None THEN Answer(reqs[r], 200) ELSE Raise(reqs[r], raised))
  BY DEF repair_sql
<1>4. CASE raised = None \/ raised = "EmptyQuestionError"
  <2>1. \E code \in Nat : Fits(reqs[r], keys, code) /\ Local(r, Answer(reqs[r], code))
    <3>1. Local(r, Answer(reqs[r], 200)) \/ Local(r, Answer(reqs[r], 400))
      BY <1>3, <1>4, RaiseIs
    <3>2. Fits(reqs[r], keys, 200) /\ Fits(reqs[r], keys, 400)
      BY <1>2 DEF Fits
    <3> QED
      BY <3>1, <3>2
  <2> QED
    BY <1>1, <2>1, AnswersAtOnce, Zenon
<1>5. CASE raised # None /\ raised # "EmptyQuestionError"
  <2>1. reqs[r].plan.question # "empty" /\ raised = "LLMError"
    BY <1>3, <1>5
  <2>2. Local(r, Unhandled(reqs[r]))
    BY <1>3, <1>5, <2>1, RaiseIs
  <2>3. Explained(reqs[r])
    BY <2>1 DEF Explained, repair_sql, RouteOf
  <2> QED
    BY <1>1, <2>2, <2>3, FailsAtOnce
<1> QED
  BY <1>4, <1>5

----------------------------------------------------------------------------
(* Texts: what is validated, generated and run.                            *)

LEMMA ValidateKeepsIInv ==
  ASSUME IInv, NEW r \in Requests, validate_sql(r)
  PROVE  IInv'
<1> DEFINE q == reqs[r]
<1>1. q \in Request /\ q.pc = "handle" /\ q.pc \in {"limit", "handle"} /\ Quiet
  BY GoodHere DEF validate_sql, At, Tables, Quiet
<1>2. q.ran = None /\ q.generation = None
  BY <1>1, HandlerKnown
<1>3. CASE ValidationRaises(Texts[q.plan.text])
  <2>1. Local(r, Unhandled(q))
    BY <1>3 DEF validate_sql
  <2>2. Explained(q)
    BY <1>3, Zenon DEF Explained, ValidationRaises, validate_sql, RouteOf
  <2> QED
    BY <1>1, <2>1, <2>2, FailsAtOnce
<1>4. CASE ~ValidationRaises(Texts[q.plan.text])
  <2> DEFINE outcome == IF is_valid(q.plan.text) THEN "valid" ELSE "invalid"
             q1 == [q EXCEPT !.outcome = outcome]
  <2>1. Local(r, Answer(q1, 200))
    BY <1>4, Zenon DEF validate_sql
  <2>2. Alike(q1, q) /\ q1.ran = None /\ q1.generation = None
    <3>1. outcome \in Outcomes
      BY DEF Outcomes
    <3> HIDE DEF outcome
    <3> QED
      BY <1>1, <1>2, <3>1, OutcomeIs
  <2> HIDE DEF q1
  <2>3. \E code \in Nat : Fits(q1, keys, code) /\ Local(r, Answer(q1, code))
    BY <2>1, <2>2 DEF Fits
  <2> QED
    BY <1>1, <2>2, <2>3, LocalAnswer, Zenon
<1> QED
  BY <1>3, <1>4

\* A text the guard permits is a single SELECT without its write nodes.
LEMMA PermittedReads ==
  ASSUME NEW t \in DOMAIN Texts, NEW q, NEW v, NEW ho, check(Texts[t], v),
         q.plan.route = "query" => <<t, ho, TRUE>> \in Verdicts
  PROVE  Reading(t, q, ho)
BY DEF check, Reading

LEMMA ExecuteKeepsIInv ==
  ASSUME IInv, NEW r \in Requests, execute_sql(r)
  PROVE  IInv'
<1> DEFINE q == reqs[r]
           text == Texts[q.plan.text]
<1>1. /\ q \in Request /\ q.pc = "handle" /\ q.pc \in {"limit", "handle"} /\ Quiet
      /\ q.plan.route = "execute"
  BY GoodHere DEF execute_sql, At, Tables, Quiet, RouteOf
<1>2. /\ q.ran = None /\ q.generation = None /\ Known(r, q, keys, audit)
      /\ Follows(q, q) /\ q.pc \notin DbPoints
  BY <1>1, HandlerKnown
<1>3. CASE GuardRaises(text, q.plan.claim)
  <2>1. Local(r, Unhandled(q))
    BY <1>3 DEF execute_sql
  <2>2. Explained(q)
    BY <1>1, <1>3 DEF Explained, GuardRaises
  <2> QED
    BY <1>1, <2>1, <2>2, FailsAtOnce
<1>4. CASE ~GuardRaises(text, q.plan.claim) /\ check(text, q.plan.claim)
  <2>1. Local(r, Goto(q, "execute"))
    BY <1>4 DEF execute_sql
  <2>2. q.plan.text \in DOMAIN Texts
    BY <1>1, <1>2 DEF Known, ClientPlans
  <2>3. Reading(q.plan.text, q, hash_order)
    BY <1>1, <1>4, <2>2, PermittedReads
  <2>4. Leads(r, q, Goto(q, "execute"), keys, audit, hash_order)
    BY <1>1, <1>2, <2>3, GotoKnown DEF Indoors
  <2> QED
    BY <1>1, <1>2, <2>1, <2>4, LocalLeads
<1>5. CASE ~GuardRaises(text, q.plan.claim) /\ ~check(text, q.plan.claim)
  <2> DEFINE q1 == [q EXCEPT !.outcome = "rejected"]
  <2>1. Local(r, Answer(q1, 200))
    BY <1>5 DEF execute_sql
  <2>2. Alike(q1, q) /\ q1.ran = None /\ q1.generation = None
    <3>1. "rejected" \in Outcomes
      BY DEF Outcomes
    <3> QED
      BY <1>1, <1>2, <3>1, OutcomeIs, Zenon
  <2> HIDE DEF q1
  <2>3. \E code \in Nat : Fits(q1, keys, code) /\ Local(r, Answer(q1, code))
    BY <2>1, <2>2 DEF Fits
  <2> QED
    BY <1>1, <2>2, <2>3, LocalAnswer, Zenon
<1> QED
  BY <1>3, <1>4, <1>5

\* What generate_and_validate comes to: a text of ours, and valid in this
\* process's hash order where it says so; an empty question is told apart.
LEMMA GenerationIs ==
  ASSUME NEW plan \in ClientPlans, plan.route \in {"query", "sql"},
         NEW g \in generate_and_validate(plan)
  PROVE  /\ g \in Generations
         /\ g.error = None => /\ g.sql \in DOMAIN Texts
                              /\ g.valid => <<g.sql, hash_order, TRUE>> \in Verdicts
         /\ plan.question = "empty" => g.error = "EmptyQuestionError"
<1>1. plan.question \in {"asked", "empty", "unanswered"}
  BY DEF ClientPlans
<1> DEFINE sql == extract(plan.content)
<1>2. plan.question = "asked" => sql \in DOMAIN Texts
  BY DEF ClientPlans, Contents, extract
<1> HIDE DEF sql
<1>3. /\ {} \in SUBSET Stages /\ Prepared \in SUBSET Stages /\ Generated \in SUBSET Stages
      /\ Validated \in SUBSET Stages /\ Validated \cup {"sql_repair"} \in SUBSET Stages
  BY DEF Stages, Validated, Generated, Prepared
<1>4. /\ \A e \in Failures : e # None
      /\ {"EmptyQuestionError", "LLMError", "SQLExtractionError", "TokenError", "RepairError"}
           \subseteq Failures
  BY NoneAssumption DEF Failures
<1>5. CASE plan.question = "empty"
  <2>1. g = Generation("EmptyQuestionError", None, None, FALSE, FALSE, {})
    BY <1>5 DEF generate_and_validate
  <2> QED
    BY <1>3, <1>4, <2>1 DEF Generation, Generations
<1>6. CASE plan.question = "unanswered"
  <2>1. g = Generation("LLMError", None, None, FALSE, FALSE, Prepared)
    BY <1>6 DEF generate_and_validate
  <2> QED
    BY <1>3, <1>4, <1>6, <2>1 DEF Generation, Generations
<1>7. CASE plan.question = "asked" /\ Texts[sql] = Blank
  <2>1. g = Generation("SQLExtractionError", None, None, FALSE, FALSE, Prepared)
    BY <1>7 DEF generate_and_validate, sql
  <2> QED
    BY <1>3, <1>4, <1>7, <2>1 DEF Generation, Generations
<1>8. CASE plan.question = "asked" /\ Texts[sql] # Blank /\ ValidationRaises(Texts[sql])
  <2>1. g = Generation("TokenError", sql, None, FALSE, FALSE, Generated)
    BY <1>8 DEF generate_and_validate, sql
  <2> QED
    BY <1>2, <1>3, <1>4, <1>8, <2>1 DEF Generation, Generations
<1>9. CASE plan.question = "asked" /\ Texts[sql] # Blank /\ ~ValidationRaises(Texts[sql])
  <2>1. \/ is_valid(sql) /\ g = Generation(None, sql, TRUE, FALSE, FALSE, Validated)
        \/ g = Generation("RepairError", sql, FALSE, TRUE, FALSE, Validated)
        \/ \E t \in Repairs \cup {sql} :
             g = Generation(None, t, is_valid(t), TRUE, is_valid(t), Validated \cup {"sql_repair"})
    BY <1>9, Zenon DEF generate_and_validate, sql
  <2>2. CASE is_valid(sql) /\ g = Generation(None, sql, TRUE, FALSE, FALSE, Validated)
    BY <1>2, <1>3, <1>4, <1>9, <2>2 DEF is_valid, Generation, Generations
  <2>3. CASE g = Generation("RepairError", sql, FALSE, TRUE, FALSE, Validated)
    BY <1>2, <1>3, <1>4, <1>9, <2>3 DEF Generation, Generations
  <2>4. ASSUME NEW t \in Repairs \cup {sql},
               g = Generation(None, t, is_valid(t), TRUE, is_valid(t), Validated \cup {"sql_repair"})
        PROVE  /\ g \in Generations /\ g.sql \in DOMAIN Texts
               /\ g.valid => <<g.sql, hash_order, TRUE>> \in Verdicts
    <3>1. t \in DOMAIN Texts
      BY <1>2, <1>9, TextsAssumption
    <3>2. is_valid(t) \in BOOLEAN
      BY DEF is_valid
    <3>3. PICK v \in BOOLEAN : v = is_valid(t)
      BY <3>2
    <3>4. v => <<t, hash_order, TRUE>> \in Verdicts
      BY <3>3 DEF is_valid
    <3>5. g = Generation(None, t, v, TRUE, v, Validated \cup {"sql_repair"})
      BY <2>4, <3>3, Zenon
    <3>6. g \in Generations /\ g.sql = t /\ (g.valid => v)
      BY <1>3, <3>1, <3>5 DEF Generation, Generations
    <3> QED
      BY <3>1, <3>4, <3>6
  <2> QED
    BY <1>9, <2>1, <2>2, <2>3, <2>4
<1> QED
  BY <1>1, <1>5, <1>6, <1>7, <1>8, <1>9

LEMMA GenerationAlike ==
  ASSUME NEW q \in Request, NEW g \in Generations
  PROVE  LET p == [q EXCEPT !.generation = g]
         IN  Alike(p, q) /\ p.ran = q.ran /\ p.generation = g
<1>1. [q EXCEPT !.generation = g] \in Request
  BY DEF Request
<1> QED
  BY <1>1 DEF Alike, Request

\* A failure is answered with 400 for an empty question and 500 for the others.
LEMMA GenerateKeepsIInv ==
  ASSUME IInv, NEW r \in Requests, generate_sql(r)
  PROVE  IInv'
<1> DEFINE q == reqs[r]
<1>1. /\ q \in Request /\ q.pc = "handle" /\ q.pc \in {"limit", "handle"} /\ Quiet
      /\ q.plan.route = "sql"
  BY GoodHere DEF generate_sql, At, Tables, Quiet, RouteOf
<1>2. q.ran = None /\ q.plan \in ClientPlans
  BY <1>1, HandlerKnown DEF Known
<1>3. PICK g \in generate_and_validate(q.plan) :
        Local(r, Answer([q EXCEPT !.generation = g],
                        IF g.error = None THEN 200 ELSE status_for(g.error)))
  BY DEF generate_sql
<1>4. g \in Generations
  BY <1>1, <1>2, GenerationIs
<1> DEFINE q1 == [q EXCEPT !.generation = g]
<1>5. Alike(q1, q) /\ q1.ran = None /\ q1.generation = g
  BY <1>1, <1>2, <1>4, GenerationAlike
<1>6. Local(r, Answer(q1, IF g.error = None THEN 200 ELSE status_for(g.error)))
  BY <1>3
<1> HIDE DEF q1
<1>7. \E code \in Nat : Fits(q1, keys, code) /\ Local(r, Answer(q1, code))
  <2>1. q1.plan = q.plan
    BY <1>5 DEF Alike
  <2>2. CASE g.error = None
    BY <1>6, <2>2, <1>1, <2>1, <1>4, NoneAssumption DEF Fits, Failures
  <2>3. CASE g.error # None /\ g.error = "EmptyQuestionError"
    <3>1. status_for(g.error) = 400
      BY <2>3 DEF status_for, STATUS_BY_EXCEPTION
    <3> QED
      BY <1>6, <2>3, <3>1, <1>1, <2>1 DEF Fits
  <2>4. CASE g.error # None /\ g.error # "EmptyQuestionError"
    <3>1. g.error \in Failures
      BY <1>4, <2>4 DEF Generations
    <3>2. status_for(g.error) = 500
      BY <2>4, <3>1 DEF status_for, STATUS_BY_EXCEPTION, Failures
    <3> QED
      BY <1>4, <1>5, <1>6, <2>4, <3>1, <3>2, <1>1, <2>1 DEF Fits
  <2> QED
    BY <2>2, <2>3, <2>4
<1> QED
  BY <1>1, <1>5, <1>7, LocalAnswer, Zenon

LEMMA RespondIs ==
  ASSUME NEW q \in Request, NEW g \in Generations, NEW outcome \in Outcomes, NEW rows
  PROVE  \E p \in Request : /\ Respond(q, g, outcome, rows) = Answer(p, 200)
                            /\ Alike(p, q) /\ p.ran = q.ran /\ p.generation = g
<1> DEFINE a == IF rows = None THEN None ELSE determine(Head(Texts[g.sql].statements), rows)
           p == [q EXCEPT !.generation = g, !.outcome = outcome, !.answer = a]
<1>1. a \in Shapes \cup {None}
  BY DEF determine, Shapes
<1>2. Respond(q, g, outcome, rows) = Answer(p, 200)
  BY Zenon DEF Respond
<1> HIDE DEF a
<1>3. p \in Request
  BY <1>1, ZenonT(30) DEF Request
<1>4. Alike(p, q) /\ p.ran = q.ran /\ p.generation = g
  BY <1>3 DEF Alike, Request
<1> QED
  BY <1>2, <1>3, <1>4

LEMMA AskKeepsIInv ==
  ASSUME IInv, NEW r \in Requests, ask_question(r)
  PROVE  IInv'
<1> DEFINE q == reqs[r]
<1>1. /\ q \in Request /\ q.pc = "handle" /\ q.pc \in {"limit", "handle"} /\ Quiet
      /\ q.plan.route = "query"
  BY GoodHere DEF ask_question, At, Tables, Quiet, RouteOf
<1>2. /\ q.ran = None /\ q.generation = None /\ Known(r, q, keys, audit)
      /\ q.pc \notin DbPoints /\ q.plan \in ClientPlans
  BY <1>1, HandlerKnown DEF Known
<1>3. PICK g \in generate_and_validate(q.plan) :
        \/ /\ g.error = None /\ check(Texts[g.sql], g.valid)
           /\ Local(r, Goto([q EXCEPT !.generation = g], "execute"))
        \/ \E outcome \in {"rejected", "error"} : Local(r, Respond(q, g, outcome, None))
  BY DEF ask_question
<1>4. /\ g \in Generations
      /\ g.error = None => /\ g.sql \in DOMAIN Texts
                           /\ g.valid => <<g.sql, hash_order, TRUE>> \in Verdicts
  BY <1>1, <1>2, GenerationIs
<1>5. CASE /\ g.error = None /\ check(Texts[g.sql], g.valid)
           /\ Local(r, Goto([q EXCEPT !.generation = g], "execute"))
  <2> DEFINE q1 == [q EXCEPT !.generation = g]
  <2>1. Alike(q1, q) /\ q1.ran = None /\ q1.generation = g
    BY <1>1, <1>2, <1>4, GenerationAlike
  <2>2. Local(r, Goto(q1, "execute"))
    BY <1>5
  <2> HIDE DEF q1
  <2>3. Known(r, q1, keys, audit) /\ Follows(q, q1)
    BY <1>1, <1>2, <2>1, AlikeKnown
  <2>4. g.valid
    BY <1>5 DEF check
  <2>5. Reading(q1.generation.sql, q1, hash_order)
    BY <1>4, <1>5, <2>1, <2>4, PermittedReads
  <2>6. q1.plan.route = "query" /\ q1.conn = q.conn
    BY <1>1, <2>1 DEF Alike
  <2>7. Leads(r, q1, Goto(q1, "execute"), keys, audit, hash_order)
    BY <1>4, <2>1, <2>3, <2>5, <2>6, GotoKnown DEF Indoors
  <2> QED
    BY <1>1, <1>2, <2>2, <2>3, <2>6, <2>7, LocalLeads
<1>6. CASE \E outcome \in {"rejected", "error"} : Local(r, Respond(q, g, outcome, None))
  <2>1. PICK outcome \in Outcomes : Local(r, Respond(q, g, outcome, None))
    BY <1>6 DEF Outcomes
  <2>2. PICK p \in Request : /\ Respond(q, g, outcome, None) = Answer(p, 200)
                             /\ Alike(p, q) /\ p.ran = q.ran /\ p.generation = g
    BY <1>1, <1>4, RespondIs
  <2>3. \E code \in Nat : Fits(p, keys, code) /\ Local(r, Answer(p, code))
    BY <2>1, <2>2 DEF Fits
  <2> QED
    BY <1>1, <1>2, <2>2, <2>3, LocalAnswer, Zenon
<1> QED
  BY <1>3, <1>5, <1>6

\* The text of a request at the database is one the guard permits.
LEMMA RanIs ==
  ASSUME IInv, NEW r \in Requests, reqs[r].pc = "execute"
  PROVE  /\ Alike(Ran(r), reqs[r]) /\ Reading(Ran(r).ran, Ran(r), hash_order)
         /\ Ran(r).generation = reqs[r].generation
<1> DEFINE q == reqs[r]
           t == Running(r)
           p == [q EXCEPT !.ran = t]
<1>1. q \in Request /\ Good(r, q, keys, audit, hash_order)
  BY GoodHere
<1>2. q.plan.route \in {"query", "execute"}
  BY <1>1 DEF Good, Placed
<1>3. Reading(t, q, hash_order)
  BY <1>1, <1>2 DEF Good, Executing, Running, RouteOf
<1>4. t \in DOMAIN Texts
  BY <1>3 DEF Reading
<1>5. Ran(r) = p
  BY DEF Ran
<1> HIDE DEF t
<1>6. p \in Request
  BY <1>1, <1>4 DEF Request
<1>7. Alike(p, q) /\ p.ran = t /\ p.generation = q.generation
  BY <1>1, <1>6 DEF Alike, Request
<1>8. Reading(p.ran, p, hash_order)
  BY <1>3, <1>7 DEF Reading, Alike
<1> QED
  BY <1>5, <1>7, <1>8

\* However an execution ends, it is answered with a 200.
LEMMA ExecutedIs ==
  ASSUME IInv, NEW r \in Requests, reqs[r].pc = "execute", NEW q, Alike(q, reqs[r]),
         q.generation = reqs[r].generation, q.ran # None => Reading(q.ran, q, hash_order),
         NEW outcome \in Outcomes, NEW rows
  PROVE  \E p \in Request : /\ Executed(q, outcome, rows) = Answer(p, 200)
                            /\ Alike(p, reqs[r])
                            /\ p.ran # None => Reading(p.ran, p, hash_order)
<1>1. Good(r, reqs[r], keys, audit, hash_order) /\ q \in Request
  BY GoodHere DEF Alike
<1>2. q.plan = reqs[r].plan /\ q.plan.route \in {"query", "execute"}
  BY <1>1 DEF Good, Placed, Alike
<1>3. \E p \in Request : /\ Executed(q, outcome, rows) = Answer(p, 200)
                         /\ Alike(p, q) /\ p.ran = q.ran
  <2>1. CASE q.plan.route = "execute"
    <3> DEFINE p == [q EXCEPT !.outcome = outcome]
    <3>1. Alike(p, q) /\ p.ran = q.ran
      BY <1>1, OutcomeIs
    <3>2. Executed(q, outcome, rows) = Answer(p, 200)
      BY <2>1 DEF Executed
    <3> HIDE DEF p
    <3> QED
      BY <3>1, <3>2 DEF Alike
  <2>2. CASE q.plan.route = "query"
    <3>1. q.generation \in Generations
      BY <1>1, <1>2, <2>2 DEF Good, Executing
    <3>2. Executed(q, outcome, rows) = Respond(q, q.generation, outcome, rows)
      BY <2>2 DEF Executed
    <3> QED
      BY <1>1, <3>1, <3>2, RespondIs
  <2> QED
    BY <1>2, <2>1, <2>2
<1>4. PICK p \in Request : /\ Executed(q, outcome, rows) = Answer(p, 200)
                           /\ Alike(p, q) /\ p.ran = q.ran
  BY <1>3
<1>5. Alike(p, reqs[r])
  BY <1>4 DEF Alike
<1>6. p.ran # None => Reading(p.ran, p, hash_order)
  BY <1>4 DEF Reading, Alike
<1> QED
  BY <1>4, <1>5, <1>6

LEMMA ExecutionEnds ==
  ASSUME IInv, NEW r \in Requests, reqs[r].pc = "execute", NEW q, Alike(q, reqs[r]),
         q.generation = reqs[r].generation, q.ran # None => Reading(q.ran, q, hash_order),
         NEW outcome \in Outcomes, NEW rows, Quiet,
         Finish(r, Executed(q, outcome, rows)) \/ Fail(r, Executed(q, outcome, rows))
  PROVE  IInv'
<1>1. PICK p \in Request : /\ Executed(q, outcome, rows) = Answer(p, 200)
                           /\ Alike(p, reqs[r])
                           /\ p.ran # None => Reading(p.ran, p, hash_order)
  BY ExecutedIs
<1>2. \E code \in Nat : /\ Fits(p, keys, code)
                        /\ Finish(r, Answer(p, code)) \/ Fail(r, Answer(p, code))
  <2>1. Fits(p, keys, 200) /\ 200 \in Nat
    BY DEF Fits
  <2>2. Finish(r, Answer(p, 200)) \/ Fail(r, Answer(p, 200))
    BY <1>1, Zenon
  <2> QED
    BY <2>1, <2>2
<1>3. reqs[r].pc \in Indoors
  BY DEF Indoors
<1> QED
  BY <1>1, <1>2, <1>3, ReleaseAnswer, Zenon

LEMMA ExecutorKeepsIInv ==
  ASSUME IInv, NEW r \in Requests, SQLExecutor(r)
  PROVE  IInv'
<1>1. reqs[r].pc = "execute" /\ Quiet
  BY DEF SQLExecutor, At, Tables, Quiet
<1>2. \E outcome \in Outcomes, rows \in RowCounts \cup {None} : Finish(r, Executed(Ran(r), outcome, rows))
  BY DEF SQLExecutor, Outcomes
<1>3. /\ Alike(Ran(r), reqs[r]) /\ Reading(Ran(r).ran, Ran(r), hash_order)
      /\ Ran(r).generation = reqs[r].generation
  BY <1>1, RanIs
<1> QED
  BY <1>1, <1>2, <1>3, ExecutionEnds

LEMMA ExecutionFailsKeepsIInv ==
  ASSUME IInv, NEW r \in Requests, ExecutionFails(r)
  PROVE  IInv'
<1> DEFINE q == IF reqs[r].conn THEN Ran(r) ELSE reqs[r]
<1>1. reqs[r].pc = "execute" /\ Quiet /\ "failed" \in Outcomes
  BY DEF ExecutionFails, At, Tables, Quiet, Outcomes
<1>2. Fail(r, Executed(q, "failed", None))
  BY DEF ExecutionFails
<1>3. /\ Alike(Ran(r), reqs[r]) /\ Reading(Ran(r).ran, Ran(r), hash_order)
      /\ Ran(r).generation = reqs[r].generation
  BY <1>1, RanIs
<1>4. Alike(reqs[r], reqs[r]) /\ reqs[r].ran = None
  BY <1>1, GoodHere, AlikeItself, IndoorsKnown DEF Indoors
<1>5. /\ Alike(q, reqs[r]) /\ q.generation = reqs[r].generation
      /\ q.ran # None => Reading(q.ran, q, hash_order)
  BY <1>3, <1>4
<1> HIDE DEF q
<1> QED
  BY <1>1, <1>2, <1>5, ExecutionEnds

LEMMA ExecutionRaisesKeepsIInv ==
  ASSUME IInv, NEW r \in Requests, ExecutionRaises(r)
  PROVE  IInv'
<1> DEFINE q == Ran(r)
<1>1. reqs[r].pc = "execute" /\ reqs[r].pc \in Indoors /\ Quiet
  BY DEF ExecutionRaises, At, Tables, Quiet, Indoors
<1>2. /\ Alike(q, reqs[r]) /\ Reading(q.ran, q, hash_order)
      /\ q.generation = reqs[r].generation
  BY <1>1, RanIs
<1>3. /\ Good(r, reqs[r], keys, audit, hash_order) /\ Known(r, reqs[r], keys, audit)
  BY <1>1, GoodHere, IndoorsKnown
<1> HIDE DEF q
<1>4. CASE RouteOf(r) = "execute" /\ Fail(r, Unhandled([q EXCEPT !.broke = TRUE]))
  <2> DEFINE q1 == [q EXCEPT !.broke = TRUE]
  <2>1. q1 \in Request
    BY <1>2 DEF Alike, Request
  <2>2. /\ q1.broke /\ q1.plan = q.plan /\ q1.user = q.user /\ q1.ran = q.ran /\ q1.conn = q.conn
        /\ q1.generation = q.generation /\ q1.late = q.late /\ q1.lost = q.lost
    BY <1>2 DEF Alike, Request
  <2>3. Fail(r, Unhandled(q1))
    BY <1>4
  <2> HIDE DEF q1
  <2>4. Known(r, q1, keys, audit) /\ Explained(q1)
    BY <1>2, <1>3, <2>1, <2>2 DEF Known, Alike, ByKey, Credential, Explained
  <2>5. q1.generation = None
    BY <1>1, <1>2, <1>3, <1>4, <2>2 DEF Good, Executing, RouteOf
  <2>6. Reading(q1.ran, q1, hash_order)
    BY <1>2, <2>2 DEF Reading
  <2>7. Leads(r, q1, Unhandled(q1), keys, audit, hash_order)
    BY <2>4, <2>5, <2>6, UnhandledKnown
  <2>8. Follows(reqs[r], q1)
    BY <1>1, <1>2, <2>2 DEF Follows, Alike
  <2> QED
    BY <1>1, <2>3, <2>7, <2>8, ReleaseLeads
<1>5. CASE RouteOf(r) = "query" /\ Fail(r, Respond(q, reqs[r].generation, "error", None))
  <2>1. reqs[r].generation \in Generations /\ "error" \in Outcomes /\ q \in Request
    BY <1>1, <1>2, <1>3, <1>5 DEF Good, Executing, RouteOf, Outcomes, Alike
  <2>2. PICK p \in Request : /\ Respond(q, reqs[r].generation, "error", None) = Answer(p, 200)
                             /\ Alike(p, q) /\ p.ran = q.ran
    BY <2>1, RespondIs
  <2>3. Alike(p, reqs[r]) /\ (p.ran # None => Reading(p.ran, p, hash_order))
    BY <1>2, <2>2 DEF Alike, Reading
  <2>4. \E code \in Nat : Fits(p, keys, code) /\ (Finish(r, Answer(p, code)) \/ Fail(r, Answer(p, code)))
    <3>1. Fits(p, keys, 200) /\ 200 \in Nat
      BY DEF Fits
    <3>2. Fail(r, Answer(p, 200))
      BY <1>5, <2>2, Zenon
    <3> QED
      BY <3>1, <3>2
  <2> QED
    BY <1>1, <2>3, <2>4, ReleaseAnswer, Zenon
<1> QED
  BY <1>4, <1>5 DEF ExecutionRaises, q

LEMMA ProbesKeepIInv ==
  ASSUME IInv, NEW r \in Requests, Probe(r) \/ ProbeFails(r)
  PROVE  IInv'
<1> DEFINE q == reqs[r]
<1>1. q \in Request /\ q.pc = "probe" /\ q.pc \in Indoors /\ Quiet
  BY GoodHere DEF Probe, ProbeFails, At, Tables, Quiet, Indoors
<1>2. q.ran = None /\ q.generation = None
  BY <1>1, GoodHere, IndoorsKnown
<1>3. \E reachable \in BOOLEAN : Finish(r, Probed(q, reachable)) \/ Fail(r, Probed(q, reachable))
  BY DEF Probe, ProbeFails
<1>4. PICK reachable \in BOOLEAN : Finish(r, Probed(q, reachable)) \/ Fail(r, Probed(q, reachable))
  BY <1>3
<1>5. Probed(q, reachable) = Answer(q, 200) \/ Probed(q, reachable) = Answer(q, 503)
  BY DEF Probed
<1>6. \E code \in Nat : /\ Fits(q, keys, code)
                        /\ Finish(r, Answer(q, code)) \/ Fail(r, Answer(q, code))
  <2>1. Fits(q, keys, 200) /\ Fits(q, keys, 503)
    BY <1>2 DEF Fits
  <2>2. 200 \in Nat /\ 503 \in Nat
    OBVIOUS
  <2>3. CASE Probed(q, reachable) = Answer(q, 200)
    BY <1>4, <2>1, <2>2, <2>3
  <2>4. CASE Probed(q, reachable) = Answer(q, 503)
    BY <1>4, <2>1, <2>2, <2>4
  <2> QED
    BY <1>5, <2>3, <2>4
<1>7. Alike(q, q)
  BY <1>1, AlikeItself
<1> QED
  BY <1>1, <1>2, <1>6, <1>7, ReleaseAnswer, Zenon

LEMMA ReadKeepsIInv ==
  ASSUME IInv, NEW r \in Requests, Read(r)
  PROVE  IInv'
<1> DEFINE q == reqs[r]
<1>1. q \in Request /\ q.pc \in Indoors /\ q.pc # "execute" /\ Quiet
  BY GoodHere DEF Read, Tables, Quiet, Indoors
<1>2. q.ran = None /\ q.generation = None
  BY <1>1, GoodHere, IndoorsKnown
<1>3. \E code \in Nat : /\ Fits(q, keys, code)
                        /\ Finish(r, Answer(q, code)) \/ Fail(r, Answer(q, code))
  BY <1>2 DEF Fits, Read
<1>4. Alike(q, q)
  BY <1>1, AlikeItself
<1> QED
  BY <1>1, <1>2, <1>3, <1>4, ReleaseAnswer, Zenon

----------------------------------------------------------------------------
(* API keys.                                                               *)

LEMMA KnownGrows ==
  ASSUME IInv, NEW r \in Requests, Grows(keys, keys'), reqs[r].pc \in Indoors \ {"execute"}
  PROVE  /\ Known(r, reqs[r], keys', audit)
         /\ reqs[r].ran = None /\ reqs[r].generation = None
<1>1. reqs[r] \in Request /\ Good(r, reqs[r], keys', audit, hash_order)
  BY GoodHere, GoodGrows
<1> QED
  BY <1>1, IndoorsKnown

LEMMA GrowsItself == Grows(keys, keys)
BY DEF Grows

\* The key routes are a user's.
LEMMA KeyOwner ==
  ASSUME IInv, NEW r \in Requests, reqs[r].pc \in {"create", "find_key", "revoke"}
  PROVE  reqs[r].user \in Users /\ reqs[r].plan \in ClientPlans
<1>1. reqs[r] \in Request /\ Good(r, reqs[r], keys, audit, hash_order)
  BY GoodHere
<1>2. reqs[r].plan \in ClientPlans
  BY <1>1 DEF Good, Placed
<1>3. reqs[r].plan.route \in {"create_api_key", "revoke_api_key"}
  BY <1>1 DEF Good, Placed
<1>4. Credential(reqs[r]) # "none"
  BY <1>3 DEF Credential, Routes, Route
<1>5. reqs[r].user # None
  BY <1>1, <1>4 DEF Good, Identified, Indoors
<1> QED
  BY <1>1, <1>2, <1>5 DEF Request

LEMMA CreatedKeys ==
  ASSUME IInv, NEW r \in Requests, reqs[r].pc = "create", NEW k \in Keys, ~keys[k].exists,
         keys' = Created(r, k)
  PROVE  /\ keys' \in [Keys -> KeyRows] /\ KeysGood(keys') /\ Grows(keys, keys')
         /\ \A j \in Keys : keys'[j].revoked => keys[j].revoked
<1>1. keys \in [Keys -> KeyRows] /\ KeysGood(keys)
  BY DEF IInv, TypeOK
<1>2. reqs[r].user \in Users
  BY KeyOwner
<1>3. PICK row \in KeyRows : /\ keys' = [keys EXCEPT ![k] = row]
                             /\ row.owner \in Users /\ row.exists /\ ~row.revoked
  <2> DEFINE row == [exists |-> TRUE, owner |-> reqs[r].user, revoked |-> FALSE,
                     expired |-> FALSE, recent |-> FALSE]
  <2>1. row \in KeyRows /\ row.owner \in Users /\ row.exists /\ ~row.revoked
    BY <1>2 DEF KeyRows
  <2>2. keys' = [keys EXCEPT ![k] = row]
    BY DEF Created
  <2> HIDE DEF row
  <2> QED
    BY <2>1, <2>2
<1>4. /\ row.exists => row.owner \in Users
      /\ row.revoked => row.exists
      /\ keys[k].exists => row.exists
      /\ keys[k].revoked => row.revoked
  BY <1>1, <1>3 DEF KeysGood
<1>5. /\ keys' \in [Keys -> KeyRows] /\ KeysGood(keys') /\ Grows(keys, keys')
      /\ keys'[k] = row /\ \A j \in Keys : j # k => keys'[j] = keys[j]
  BY <1>1, <1>3, <1>4 DEF KeysGood, Grows
<1> QED
  BY <1>3, <1>5

LEMMA RevokedKeys ==
  ASSUME IInv, NEW r \in Requests, reqs[r].pc = "revoke",
         keys' = [keys EXCEPT ![reqs[r].plan.target].revoked = TRUE]
  PROVE  /\ keys' \in [Keys -> KeyRows] /\ KeysGood(keys') /\ Grows(keys, keys')
         /\ keys'[reqs[r].plan.target].revoked
         /\ \A j \in Keys : keys'[j].revoked => keys[j].revoked \/ j = reqs[r].plan.target
<1>1. keys \in [Keys -> KeyRows] /\ KeysGood(keys)
  BY DEF IInv, TypeOK
<1>2. Good(r, reqs[r], keys, audit, hash_order) /\ reqs[r].plan \in ClientPlans
  BY GoodHere, KeyOwner
<1>3. PICK k \in Keys : k = reqs[r].plan.target /\ keys[k].exists
  BY <1>2 DEF Good, Placed, Identified, ClientPlans
<1>4. keys[k] \in KeyRows /\ keys[k].owner \in Users
  BY <1>1, <1>3 DEF KeysGood
<1>5. PICK row \in KeyRows : /\ keys' = [keys EXCEPT ![k] = row]
                             /\ row.owner \in Users /\ row.exists /\ row.revoked
  <2> DEFINE row == [keys[k] EXCEPT !.revoked = TRUE]
  <2>1. row \in KeyRows
    BY <1>4 DEF KeyRows
  <2>2. row.owner \in Users /\ row.exists /\ row.revoked
    BY <1>3, <1>4 DEF KeyRows
  <2>3. keys' = [keys EXCEPT ![k] = row]
    BY <1>3
  <2> QED
    BY <2>1, <2>2, <2>3
<1>6. /\ row.exists => row.owner \in Users
      /\ row.revoked => row.exists
      /\ keys[k].exists => row.exists
      /\ keys[k].revoked => row.revoked
  BY <1>5
<1>7. /\ keys' \in [Keys -> KeyRows] /\ KeysGood(keys') /\ Grows(keys, keys')
      /\ keys'[k] = row /\ \A j \in Keys : j # k => keys'[j] = keys[j]
  BY <1>1, <1>5, <1>6 DEF KeysGood, Grows
<1> QED
  BY <1>3, <1>5, <1>7

LEMMA CreateKeepsIInv ==
  ASSUME IInv, NEW r \in Requests, create_api_key(r)
  PROVE  IInv'
<1> DEFINE q == reqs[r]
           p == Record(q, "API_KEY_CREATED")
<1>1. /\ q.pc = "create" /\ q.pc \in Indoors \ {"execute"} /\ audit' = audit
      /\ hash_order' = hash_order /\ Finish(r, p)
  BY DEF create_api_key, At, Indoors
<1>2. PICK k \in Keys : ~keys[k].exists /\ keys' = Created(r, k)
  BY DEF create_api_key
<1>3. /\ keys' \in [Keys -> KeyRows] /\ KeysGood(keys') /\ Grows(keys, keys')
      /\ \A j \in Keys : keys'[j].revoked => keys[j].revoked
  BY <1>1, <1>2, CreatedKeys
<1>4. Known(r, q, keys', audit) /\ q.ran = None /\ q.generation = None
  BY <1>1, <1>3, KnownGrows
<1>5. q.user # None /\ q.plan.route = "create_api_key"
  BY <1>1, KeyOwner, GoodHere, NoneAssumption DEF Good, Placed
<1>6. Leads(r, q, p, keys', audit, hash_order)
  BY <1>4, <1>5, RecordKnown DEF Events, KeyEvents
<1>7. Rekeys(r, p)
  BY <1>3 DEF Rekeys
<1>8. Follows(q, q)
  BY <1>1, GoodHere, FollowsItself
<1> HIDE DEF p
<1> QED
  BY <1>1, <1>6, <1>7, <1>8, RekeyLeads

LEMMA RevokeKeepsIInv ==
  ASSUME IInv, NEW r \in Requests, revoke_api_key(r)
  PROVE  IInv'
<1> DEFINE q == reqs[r]
           p == Record(q, "API_KEY_REVOKED")
<1>1. /\ q \in Request /\ q.pc = "revoke" /\ q.pc \in Indoors \ {"execute"} /\ audit' = audit
      /\ hash_order' = hash_order /\ Finish(r, p)
  BY GoodHere DEF revoke_api_key, At, Indoors
<1>2. /\ keys' \in [Keys -> KeyRows] /\ KeysGood(keys') /\ Grows(keys, keys')
      /\ keys'[q.plan.target].revoked
      /\ \A j \in Keys : keys'[j].revoked => keys[j].revoked \/ j = q.plan.target
  BY <1>1, RevokedKeys DEF revoke_api_key
<1>3. Known(r, q, keys', audit) /\ q.ran = None /\ q.generation = None
  BY <1>1, <1>2, KnownGrows
<1>4. q.user # None /\ q.plan.route = "revoke_api_key"
  BY <1>1, KeyOwner, GoodHere, NoneAssumption DEF Good, Placed
<1>5. Leads(r, q, p, keys', audit, hash_order)
  BY <1>2, <1>3, <1>4, RecordKnown DEF Events, KeyEvents
<1>6. Shows(r, p, audit', q.plan.target)
  BY <1>1, RecordIs DEF Shows, Events
<1>7. Rekeys(r, p)
  BY <1>2, <1>6 DEF Rekeys
<1>8. Follows(q, q)
  BY <1>1, GoodHere, FollowsItself
<1> HIDE DEF p
<1> QED
  BY <1>1, <1>5, <1>7, <1>8, RekeyLeads

LEMMA FindKeyKeepsIInv ==
  ASSUME IInv, NEW r \in Requests, FindKey(r)
  PROVE  IInv'
<1> DEFINE q == reqs[r]
           row == keys[q.plan.target]
<1>1. /\ q \in Request /\ q.pc = "find_key" /\ q.pc \in Indoors /\ q.pc # "execute" /\ Quiet
  BY GoodHere DEF FindKey, At, Tables, Quiet, Indoors
<1>2. q.ran = None /\ q.generation = None /\ Known(r, q, keys, audit)
  BY <1>1, GoodHere, IndoorsKnown
<1>3. q.plan.route = "revoke_api_key"
  BY <1>1, GoodHere DEF Good, Placed
<1>4. CASE ~row.exists \/ (row.owner # q.user /\ Role[q.user] # "admin")
  <2>1. \E code \in Nat : /\ Fits(q, keys, code)
                          /\ Finish(r, Answer(q, code)) \/ Fail(r, Answer(q, code))
    <3>1. Finish(r, Answer(q, 404))
      BY <1>4, RaiseIs DEF FindKey
    <3> QED
      BY <1>2, <3>1 DEF Fits
  <2>2. Alike(q, q)
    BY <1>1, AlikeItself
  <2> QED
    BY <1>1, <1>2, <2>1, <2>2, ReleaseAnswer, Zenon
<1>5. CASE ~(~row.exists \/ (row.owner # q.user /\ Role[q.user] # "admin"))
  <2>1. Finish(r, Goto(q, "revoke")) /\ keys[q.plan.target].exists
    BY <1>5 DEF FindKey
  <2>2. Leads(r, q, Goto(q, "revoke"), keys, audit, hash_order)
    BY <1>2, <1>3, <2>1, GotoKnown DEF Indoors
  <2>3. Follows(q, q)
    BY <1>1, FollowsItself
  <2> QED
    BY <1>1, <2>1, <2>2, <2>3, ReleaseLeads
<1> QED
  BY <1>4, <1>5

----------------------------------------------------------------------------
(* Failures of the database.                                               *)

\* What a failed operation leaves in the keys.
LEMMA WrittenKeys ==
  ASSUME IInv, NEW r \in Requests, keys' \in Written(r)
  PROVE  /\ keys' \in [Keys -> KeyRows] /\ KeysGood(keys') /\ Grows(keys, keys')
         /\ \A j \in Keys : keys'[j].revoked => keys[j].revoked \/ j = reqs[r].plan.target
<1>1. CASE keys' = keys
  BY <1>1, GrowsItself DEF IInv, TypeOK
<1>2. CASE reqs[r].pc = "touch" /\ keys' = touch_api_key_last_used(r)
  <2>1. TRUE \in BOOLEAN /\ keys' = [keys EXCEPT ![reqs[r].plan.key].recent = TRUE]
    BY <1>2 DEF touch_api_key_last_used
  <2>2. reqs[r].plan.key \in Keys
    BY <1>2, GoodHere DEF Good, Identified
  <2>3. /\ keys' \in [Keys -> KeyRows] /\ KeysGood(keys') /\ Grows(keys, keys')
        /\ \A j \in Keys : keys'[j].revoked => keys[j].revoked
    BY <2>1, <2>2, TouchedKeys, Zenon
  <2> QED
    BY <2>3
<1>3. CASE reqs[r].pc = "revoke" /\ keys' = [keys EXCEPT ![reqs[r].plan.target].revoked = TRUE]
  BY <1>3, RevokedKeys
<1>4. CASE /\ reqs[r].pc = "create"
           /\ \E k \in Keys : ~keys[k].exists /\ keys' = Created(r, k)
  BY <1>4, CreatedKeys
<1> QED
  BY <1>1, <1>2, <1>3, <1>4 DEF Written, At

LEMMA OperationFailsKeepsIInv ==
  ASSUME IInv, NEW r \in Requests, OperationFails(r)
  PROVE  IInv'
<1> DEFINE q == reqs[r]
           q1 == [q EXCEPT !.broke = TRUE]
           p == Unhandled(q1)
<1>1. q \in Request /\ audit' = audit /\ hash_order' = hash_order /\ Fail(r, p)
  BY GoodHere DEF OperationFails
<1>2. /\ keys' \in [Keys -> KeyRows] /\ KeysGood(keys') /\ Grows(keys, keys')
      /\ \A j \in Keys : keys'[j].revoked => keys[j].revoked \/ j = q.plan.target
  BY WrittenKeys DEF OperationFails
<1>3. q.pc \in Outdoors \ {"idle"} \/ q.pc \in Indoors \ {"execute"}
  BY DEF OperationFails, Fail, At, DbPoints, Outdoors, Indoors
<1>4. q1 \in Request
  BY <1>1 DEF Request
<1>5. /\ q1.broke /\ q1.plan = q.plan /\ q1.user = q.user /\ q1.ran = q.ran
      /\ q1.generation = q.generation /\ q1.late = q.late /\ q1.lost = q.lost
  BY <1>1 DEF Request
<1> HIDE DEF q1
<1>6. Leads(r, q1, p, keys', audit, hash_order)
  <2>1. CASE q.pc \in Outdoors \ {"idle"}
    <3>1. Unknown(r, q, keys', audit)
      BY <1>2, <2>1, UnknownGrows
    <3>2. Unknown(r, q1, keys', audit)
      BY <1>4, <1>5, <3>1 DEF Unknown
    <3> QED
      BY <1>5, <3>2, UnhandledUnknown
  <2>2. CASE q.pc \in Indoors \ {"execute"}
    <3>1. Known(r, q, keys', audit) /\ q.ran = None /\ q.generation = None
      BY <1>2, <2>2, KnownGrows
    <3>2. Known(r, q1, keys', audit)
      BY <1>4, <1>5, <3>1 DEF Known, ByKey, Credential
    <3>3. Explained(q1) /\ q1.ran = None /\ q1.generation = None
      BY <1>5, <3>1 DEF Explained
    <3> QED
      BY <3>2, <3>3, UnhandledKnown
  <2> QED
    BY <1>3, <2>1, <2>2
<1> HIDE DEF p
<1>7. Shows(r, p, audit', q.plan.target)
  BY <1>5, <1>6 DEF Leads, Shows
<1>8. Rekeys(r, p)
  BY <1>2, <1>7 DEF Rekeys
<1>9. Follows(q, q1)
  BY <1>3, <1>5 DEF Follows, Outdoors, Indoors
<1> QED
  BY <1>1, <1>6, <1>8, <1>9, RekeyLeads

----------------------------------------------------------------------------
(* The specification.                                                      *)

LEMMA OutsideKeepsIInv ==
  ASSUME IInv, Outside
  PROVE  IInv'
<1>1. /\ keys' \in [Keys -> KeyRows] /\ KeysGood(keys') /\ Grows(keys, keys')
      /\ \A j \in Keys : keys'[j].revoked => keys[j].revoked
  <2>1. CASE keys' = keys
    BY <2>1, GrowsItself DEF IInv, TypeOK
  <2>2. CASE \E k \in Keys, b \in BOOLEAN : \/ keys' = [keys EXCEPT ![k].recent = b]
                                            \/ keys' = [keys EXCEPT ![k].expired = b]
    BY <2>2, TouchedKeys, Zenon
  <2>3. CASE \E k \in Keys : Expire(k) \/ Age(k)
    BY <2>2, <2>3 DEF Expire, Age
  <2> QED
    BY <2>1, <2>3 DEF Outside
<1>2. reqs' = reqs /\ pool' = pool /\ audit' = audit /\ hash_order' = hash_order
  BY DEF Outside
<1>3. TypeOK' /\ KeysGood(keys')
  BY <1>1, <1>2 DEF IInv, TypeOK
<1>4. ASSUME NEW r \in Requests PROVE Good(r, reqs'[r], keys', audit', hash_order')
  BY <1>1, <1>2, GoodHere, GoodGrows
<1>5. RevocationsShow'
  BY <1>1, <1>2 DEF IInv, RevocationsShow
<1>6. PoolCounts'
  BY <1>2 DEF IInv, PoolCounts, Holders
<1> QED
  BY <1>3, <1>4, <1>5, <1>6 DEF IInv

LEMMA ProceedKeepsIInv ==
  ASSUME IInv, NEW r \in Requests, Proceed(r)
  PROVE  IInv'
BY AcquireKeepsIInv, KeyRowKeepsIInv, KeyUserKeepsIInv, TouchKeepsIInv, UserRowKeepsIInv,
   AuditKeepsIInv, LimitKeepsIInv, AskKeepsIInv, GenerateKeepsIInv, ValidateKeepsIInv,
   RepairKeepsIInv, ExecuteKeepsIInv, FormatKeepsIInv, ImmediateKeepsIInv, OperateKeepsIInv,
   ExecutorKeepsIInv, ProbesKeepIInv, ReadKeepsIInv, CreateKeepsIInv, FindKeyKeepsIInv,
   RevokeKeepsIInv, Zenon DEF Proceed

LEMMA DbFailsKeepsIInv ==
  ASSUME IInv, NEW r \in Requests, DbFails(r)
  PROVE  IInv'
BY OperationFailsKeepsIInv, AuditFailsKeepsIInv, ExecutionFailsKeepsIInv,
   ExecutionRaisesKeepsIInv, ProbesKeepIInv, Zenon
   DEF DbFails

LEMMA StutterKeepsIInv ==
  ASSUME IInv, UNCHANGED vars
  PROVE  IInv'
<1>1. /\ keys' = keys /\ reqs' = reqs /\ pool' = pool /\ audit' = audit
      /\ hash_order' = hash_order
  BY DEF vars
<1>2. TypeOK' /\ RevocationsShow' /\ PoolCounts'
  BY <1>1 DEF IInv, TypeOK, RevocationsShow, PoolCounts, Holders
<1> QED
  BY <1>1, <1>2 DEF IInv

LEMMA InitIInv ==
  ASSUME Init
  PROVE  IInv
<1>1. \A r \in Requests : reqs[r] = NewRequest
  BY DEF Init
<1>2. NewRequest \in Request
  BY DEF NewRequest, Request, Points, Outdoors
<1>3. TypeOK
  <2>1. reqs \in [Requests -> Request]
    BY <1>2 DEF Init
  <2>2. ASSUME NEW k \in Keys PROVE keys[k] \in KeyRows
    BY KeysAssumption DEF Init, KeyRows
  <2>3. keys \in [Keys -> KeyRows]
    BY <2>2 DEF Init
  <2> QED
    BY <2>1, <2>3 DEF TypeOK
<1>4. KeysGood(keys) /\ \A k \in Keys : ~keys[k].revoked
  BY KeysAssumption DEF Init, KeysGood
<1>5. ASSUME NEW r \in Requests PROVE Good(r, reqs[r], keys, audit, hash_order)
  <2> DEFINE q == reqs[r]
  <2>1. /\ q.pc = "idle" /\ q.user = None /\ q.ran = None /\ q.generation = None /\ ~q.late
        /\ audit = {}
    BY <1>1 DEF NewRequest, Init
  <2> HIDE DEF q
  <2>2. Placed(q) /\ Identified(q, keys) /\ Recording(q, keys)
    BY <2>1 DEF Placed, Identified, Recording, Indoors
  <2>3. Log(r, q, keys, audit)
    BY <2>1 DEF Log, Indoors
  <2>4. Late(q, keys) /\ Executing(q, hash_order) /\ Answers(q, keys)
    BY <2>1 DEF Late, Executing, Answers
  <2> QED
    BY <2>2, <2>3, <2>4 DEF Good, q
<1>6. RevocationsShow
  BY <1>4 DEF RevocationsShow
<1>7. PoolCounts
  <2>1. Holders = {}
    BY <1>1 DEF Holders, NewRequest
  <2>2. pool = 0 /\ Cardinality(Holders) = 0
    BY <2>1, FS_EmptySet DEF Init
  <2> QED
    BY <2>1, <2>2, PoolAssumption DEF PoolCounts
<1> QED
  BY <1>3, <1>4, <1>5, <1>6, <1>7 DEF IInv

\* Every step of every request, every failure of the database and everything
\* that happens outside keeps what the theorems below rest on.
THEOREM Invariance == Spec => []IInv
<1>1. Init => IInv
  BY InitIInv
<1>2. IInv /\ [Next]_vars => IInv'
  BY OutsideKeepsIInv, ArriveKeepsIInv, ProceedKeepsIInv, DbFailsKeepsIInv, StutterKeepsIInv
     DEF Next
<1> QED
  BY <1>1, <1>2, PTL DEF Spec

----------------------------------------------------------------------------
(* Executions that succeed.                                                *)

Unsuccessful(q) == "outcome" \in DOMAIN q /\ q.outcome # "success"

\* An execution that succeeded was one the read-only connection permits.
SuccessesRead ==
    \A r \in Requests : reqs[r].outcome = "success" =>
        reqs[r].pc = "done" /\ reqs[r].ran \in DOMAIN Texts /\ ReadOnlyPermits(reqs[r].ran)

LEMMA FieldsUnsuccessful ==
  ASSUME NEW q, Unsuccessful(q), NEW v
  PROVE  /\ Unsuccessful([q EXCEPT !.conn = v]) /\ Unsuccessful([q EXCEPT !.broke = v])
         /\ Unsuccessful([q EXCEPT !.lost = v]) /\ Unsuccessful([q EXCEPT !.generation = v])
         /\ Unsuccessful([q EXCEPT !.ran = v]) /\ Unsuccessful([q EXCEPT !.user = v])
         /\ Unsuccessful([q EXCEPT !.row = v]) /\ Unsuccessful([q EXCEPT !.error = v])
         /\ v # "success" => Unsuccessful([q EXCEPT !.outcome = v])
BY DEF Unsuccessful

LEMMA OperatorsUnsuccessful ==
  ASSUME NEW q, Unsuccessful(q), NEW v
  PROVE  /\ Unsuccessful(Goto(q, v)) /\ Unsuccessful(Answer(q, v)) /\ Unsuccessful(Unhandled(q))
         /\ Unsuccessful(Record(q, v)) /\ Unsuccessful(Raise(q, v)) /\ Unsuccessful(RefuseKey(q, v))
<1>1. /\ Unsuccessful(Goto(q, v)) /\ Unsuccessful(Unhandled(q))
      /\ \A code : Unsuccessful(Answer(q, code))
  BY DEF Unsuccessful, Goto, Answer, Unhandled
<1>2. Unsuccessful(Record(q, v))
  BY DEF Unsuccessful, Record
<1>3. Unsuccessful(Raise(q, v))
  BY <1>1 DEF Raise
<1>4. Unsuccessful(RefuseKey(q, v))
  BY DEF Unsuccessful, Record, RefuseKey
<1> QED
  BY <1>1, <1>2, <1>3, <1>4

LEMMA LaterUnsuccessful ==
  ASSUME NEW q, Unsuccessful(q)
  PROVE  /\ Unsuccessful(Authorize(q)) /\ Unsuccessful(Authenticate(q))
         /\ q.event \in Events => Unsuccessful(Resume(q))
         /\ \A b : Unsuccessful(Probed(q, b))
         /\ \A g, outcome, rows : outcome # "success" => Unsuccessful(Respond(q, g, outcome, rows))
         /\ \A outcome, rows : outcome # "success" => Unsuccessful(Executed(q, outcome, rows))
<1>1. Unsuccessful(Authorize(q))
  BY OperatorsUnsuccessful DEF Authorize
<1>2. Unsuccessful(Authenticate(q))
  BY OperatorsUnsuccessful DEF Authenticate, resolve_jwt_user
<1>3. q.event \in Events => Unsuccessful(Resume(q))
  BY <1>1, OperatorsUnsuccessful DEF Resume, Events, KeyEvents
<1>4. \A b : Unsuccessful(Probed(q, b))
  BY OperatorsUnsuccessful DEF Probed
<1>5. ASSUME NEW g, NEW outcome, NEW rows, outcome # "success"
      PROVE  Unsuccessful(Respond(q, g, outcome, rows))
  <2> DEFINE a == IF rows = None THEN None ELSE determine(Head(Texts[g.sql].statements), rows)
             p == [q EXCEPT !.generation = g, !.outcome = outcome, !.answer = a]
  <2>1. Respond(q, g, outcome, rows) = Answer(p, 200)
    BY Zenon DEF Respond
  <2> HIDE DEF a
  <2>2. Unsuccessful(p)
    BY <1>5 DEF Unsuccessful
  <2> HIDE DEF p
  <2> QED
    BY <2>1, <2>2, OperatorsUnsuccessful
<1>6. ASSUME NEW outcome, NEW rows, outcome # "success"
      PROVE  Unsuccessful(Executed(q, outcome, rows))
  BY <1>5, <1>6, FieldsUnsuccessful, OperatorsUnsuccessful DEF Executed
<1> QED
  BY <1>1, <1>2, <1>3, <1>4, <1>5, <1>6

\* What a step makes of its own request, and of the others.
LEMMA StepIs ==
  ASSUME TypeOK, NEW r \in Requests, NEW q, Unsuccessful(q), Local(r, q) \/ Finish(r, q) \/ Fail(r, q)
  PROVE  Unsuccessful(reqs'[r])
<1>1. reqs' = [reqs EXCEPT ![r] = q] \/ reqs' = [reqs EXCEPT ![r] = [q EXCEPT !.conn = FALSE]]
  BY DEF Local, Finish, Fail, Step
<1>2. Unsuccessful([q EXCEPT !.conn = FALSE])
  BY FieldsUnsuccessful
<1> QED
  BY <1>1, <1>2 DEF TypeOK

\* Every step but the executor's.
LEMMA OthersUnsuccessful ==
  ASSUME IInv, NEW r \in Requests, Unsuccessful(reqs[r]),
         Arrive(r) \/ Proceed(r) \/ DbFails(r), ~SQLExecutor(r)
  PROVE  Unsuccessful(reqs'[r])
<1> DEFINE q == reqs[r]
<1>1. TypeOK /\ q \in Request /\ Good(r, q, keys, audit, hash_order)
  BY GoodHere DEF IInv
<1> USE FieldsUnsuccessful, OperatorsUnsuccessful, LaterUnsuccessful, StepIs
<1>2. CASE Arrive(r)
  <2>1. PICK plan \in Plans[r], blocked \in BOOLEAN :
          Local(r, IF blocked THEN Answer(Arrived(r, plan), 429) ELSE Authenticate(Arrived(r, plan)))
    BY <1>2 DEF Arrive
  <2>2. Unsuccessful(Arrived(r, plan))
    BY DEF Unsuccessful, Arrived
  <2> QED
    BY <1>1, <2>1, <2>2
<1>3. CASE Acquire(r)
  <2>1. reqs'[r] = [q EXCEPT !.conn = TRUE]
    BY <1>1, <1>3 DEF Acquire, Step, TypeOK
  <2> QED
    BY <2>1
<1>4. CASE KeyRow(r)
  BY <1>1, <1>4 DEF KeyRow
<1>5. CASE KeyUser(r) \/ Touch(r)
  BY <1>1, <1>5 DEF KeyUser, Touch, KeyAccepted
<1>6. CASE UserRow(r)
  BY <1>1, <1>6 DEF UserRow
<1>7. CASE Audit(r) \/ AuditFails(r)
  <2> DEFINE q1 == [q EXCEPT !.lost = TRUE]
  <2>1. q.event \in Events /\ q1.event = q.event /\ Unsuccessful(q1)
    BY <1>1, <1>7 DEF Audit, AuditFails, At, Good, Recording, Request
  <2>2. Finish(r, Resume(q)) \/ Fail(r, Resume(q1))
    BY <1>7 DEF Audit, AuditFails
  <2> HIDE DEF q1
  <2> QED
    BY <1>1, <2>1, <2>2
<1>8. CASE check_query_rate_limit(r)
  BY <1>1, <1>8 DEF check_query_rate_limit
<1>9. CASE ask_question(r)
  <2>1. PICK g \in generate_and_validate(q.plan) :
          \/ Local(r, Goto([q EXCEPT !.generation = g], "execute"))
          \/ \E outcome \in {"rejected", "error"} : Local(r, Respond(q, g, outcome, None))
    BY <1>9 DEF ask_question
  <2> QED
    BY <1>1, <2>1
<1>10. CASE generate_sql(r)
  BY <1>1, <1>10 DEF generate_sql
<1>11. CASE validate_sql(r)
  <2>1. \/ Local(r, Unhandled(q))
        \/ \E o \in {"valid", "invalid"} : Local(r, Answer([q EXCEPT !.outcome = o], 200))
    BY <1>11 DEF validate_sql
  <2> QED
    BY <1>1, <2>1
<1>12. CASE repair_sql(r) \/ format_result(r)
  BY <1>1, <1>12 DEF repair_sql, format_result
<1>13. CASE execute_sql(r)
  <2>1. \/ Local(r, Unhandled(q)) \/ Local(r, Goto(q, "execute"))
        \/ Local(r, Answer([q EXCEPT !.outcome = "rejected"], 200))
    BY <1>13 DEF execute_sql
  <2> QED
    BY <1>1, <2>1
<1>14. CASE Immediate(r) \/ Operate(r) \/ Read(r)
  BY <1>1, <1>14 DEF Immediate, Operate, Read
<1>15. CASE Probe(r) \/ ProbeFails(r)
  BY <1>1, <1>15 DEF Probe, ProbeFails
<1>16. CASE create_api_key(r) \/ FindKey(r) \/ revoke_api_key(r)
  BY <1>1, <1>16 DEF create_api_key, FindKey, revoke_api_key
<1>17. CASE OperationFails(r)
  BY <1>1, <1>17 DEF OperationFails
<1>18. CASE ExecutionFails(r)
  BY <1>1, <1>18 DEF ExecutionFails, Ran
<1>19. CASE ExecutionRaises(r)
  BY <1>1, <1>19 DEF ExecutionRaises, Ran
<1> QED
  BY <1>2, <1>3, <1>4, <1>5, <1>6, <1>7, <1>8, <1>9, <1>10, <1>11, <1>12, <1>13, <1>14, <1>15,
     <1>16, <1>17, <1>18, <1>19 DEF Proceed, DbFails

\* A step is of one request, which was not answered yet.
LEMMA OneSteps ==
  ASSUME IInv, NEW r \in Requests, Arrive(r) \/ Proceed(r) \/ DbFails(r)
  PROVE  reqs[r].pc # "done" /\ \A s \in Requests \ {r} : reqs'[s] = reqs[s]
<1>1. reqs[r].pc # "done"
  BY DEF Arrive, Proceed, DbFails, At, Acquire, KeyRow, KeyUser, Touch, UserRow, Audit,
     check_query_rate_limit, ask_question, generate_sql, validate_sql, repair_sql, execute_sql,
     format_result, Immediate, Operate, SQLExecutor, Probe, Read, create_api_key, FindKey,
     revoke_api_key, OperationFails, AuditFails, ExecutionFails, ExecutionRaises, ProbeFails, Fail,
     DbPoints
<1>2. \E p : reqs' = [reqs EXCEPT ![r] = p]
  BY DEF Arrive, Proceed, DbFails, Acquire, KeyRow, KeyUser, Touch, UserRow, Audit,
     check_query_rate_limit, ask_question, generate_sql, validate_sql, repair_sql, execute_sql,
     format_result, Immediate, Operate, SQLExecutor, Probe, Read, create_api_key, FindKey,
     revoke_api_key, OperationFails, AuditFails, ExecutionFails, ExecutionRaises, ProbeFails, Fail,
     Local, Finish, Step
<1> QED
  BY <1>1, <1>2 DEF IInv, TypeOK

LEMMA ExecutedRan ==
  ASSUME NEW q \in Request, NEW outcome, NEW rows
  PROVE  Executed(q, outcome, rows).ran = q.ran /\ Executed(q, outcome, rows).pc = "done"
<1>1. CASE q.plan.route = "execute"
  BY <1>1 DEF Executed, Answer, Request
<1>2. CASE q.plan.route # "execute"
  BY <1>2 DEF Executed, Respond, Answer, Request
<1> QED
  BY <1>1, <1>2

LEMMA NextKeepsSuccesses == IInv /\ SuccessesRead /\ [Next]_vars => SuccessesRead'
<1> SUFFICES ASSUME IInv, SuccessesRead, [Next]_vars, NEW r \in Requests, reqs'[r].outcome = "success"
             PROVE  reqs'[r].pc = "done" /\ reqs'[r].ran \in DOMAIN Texts
                    /\ ReadOnlyPermits(reqs'[r].ran)
  BY DEF SuccessesRead, ReadOnlyPermits
<1>1. reqs[r] \in Request
  BY GoodHere
<1>2. CASE reqs'[r] = reqs[r]
  BY <1>2 DEF SuccessesRead
<1>3. CASE SQLExecutor(r)
  <2>1. reqs[r].pc = "execute" /\ Unsuccessful(reqs[r])
    BY <1>1, <1>3 DEF SQLExecutor, At, SuccessesRead, Unsuccessful, Request
  <2>2. Ran(r) \in Request /\ Ran(r).ran \in DOMAIN Texts /\ Unsuccessful(Ran(r))
    BY <2>1, RanIs, FieldsUnsuccessful DEF Alike, Reading, Ran
  <2>3. Ran(r).ran = Running(r)
    BY <1>1 DEF Ran, Request
  <2>4. CASE \E n : ReadOnlyPermits(Running(r)) /\ Finish(r, Executed(Ran(r), "success", n))
    <3>1. PICK n : ReadOnlyPermits(Running(r)) /\ Finish(r, Executed(Ran(r), "success", n))
      BY <2>4
    <3> DEFINE e == Executed(Ran(r), "success", n)
    <3>2. e.ran = Running(r) /\ e.pc = "done"
      BY <2>2, <2>3, ExecutedRan
    <3>3. reqs'[r] = [e EXCEPT !.conn = FALSE]
      BY <3>1 DEF Finish, Step, IInv, TypeOK
    <3>4. e \in Request
      <4>1. "success" \in Outcomes
        BY DEF Outcomes
      <4>2. PICK p \in Request : e = Answer(p, 200)
        BY <2>1, <4>1, RanIs, ExecutedIs
      <4>3. 200 \in Nat
        OBVIOUS
      <4> QED
        BY <4>2, <4>3, AnswerIs, Zenon
    <3> HIDE DEF e
    <3>5. [e EXCEPT !.conn = FALSE].ran = e.ran /\ [e EXCEPT !.conn = FALSE].pc = e.pc
      BY <3>4 DEF Request
    <3> QED
      BY <2>2, <2>3, <3>1, <3>2, <3>3, <3>5
  <2>5. CASE \E outcome \in {"failed", "timeout"} : Finish(r, Executed(Ran(r), outcome, None))
    <3>1. Unsuccessful(reqs'[r])
      BY <2>2, <2>5, LaterUnsuccessful, StepIs DEF IInv
    <3> QED
      BY <3>1 DEF Unsuccessful
  <2> QED
    BY <1>3, <2>4, <2>5 DEF SQLExecutor
<1>4. CASE ~SQLExecutor(r) /\ (Arrive(r) \/ Proceed(r) \/ DbFails(r))
  <2>1. Unsuccessful(reqs[r])
    BY <1>1, <1>4, OneSteps DEF SuccessesRead, Unsuccessful, Request
  <2> QED
    BY <1>4, <2>1, OthersUnsuccessful DEF Unsuccessful
<1>5. reqs'[r] = reqs[r] \/ Arrive(r) \/ Proceed(r) \/ DbFails(r)
  BY OneSteps DEF Next, Outside, vars
<1> QED
  BY <1>2, <1>3, <1>4, <1>5

\* What reaches the database is a single SELECT, on /query one the validators
\* passed in this process's hash order; of all that writes only an INTO gets past
\* the guard's list of nodes, and nothing that writes succeeds: the guard is the
\* last thing a text meets before a connection that is read-only
\* (sql_execution.validator, sql_execution.connection).
THEOREM OnlyReads == Spec => []OnlyReadsExecuted
<1>1. IInv /\ SuccessesRead => OnlyReadsExecuted
  <2> SUFFICES ASSUME IInv, SuccessesRead, NEW r \in Requests, reqs[r].ran # None
               PROVE  LET statements == Texts[reqs[r].ran].statements
                      IN  /\ Len(statements) = 1
                          /\ \A i \in DOMAIN statements :
                               /\ statements[i].kind = "select"
                               /\ Writes(statements[i]) => "Into" \in statements[i].nodes
                               /\ Writes(statements[i]) => reqs[r].outcome # "success"
                          /\ RouteOf(r) = "query" => is_valid(reqs[r].ran)
    BY DEF OnlyReadsExecuted
  <2>1. Reading(reqs[r].ran, reqs[r], hash_order)
    BY GoodHere DEF Good, Executing
  <2>2. DOMAIN Texts[reqs[r].ran].statements = 1..Len(Texts[reqs[r].ran].statements)
    BY <2>1, TextsAssumption DEF Reading
  <2>3. DOMAIN Texts[reqs[r].ran].statements = {1}
    BY <2>1, <2>2 DEF Reading
  <2>4. LET s == Texts[reqs[r].ran].statements[1] IN Writes(s) => "Into" \in s.nodes
    BY <2>1 DEF Reading, Writes, WRITE_NODE_TYPES
  <2>5. reqs[r].outcome = "success" => ~Writes(Texts[reqs[r].ran].statements[1])
    BY <2>3 DEF SuccessesRead, ReadOnlyPermits
  <2> QED
    BY <2>1, <2>3, <2>4, <2>5 DEF Reading, RouteOf, is_valid
<1>2. Init => SuccessesRead
  BY NoneAssumption DEF Init, NewRequest, SuccessesRead
<1> QED
  BY <1>1, <1>2, Invariance, NextKeepsSuccesses, PTL DEF Spec

\* A revocation that was answered holds for good, whatever a request that read
\* the key before it writes back, and no request that comes after it is let in
\* with that key (auth.service, auth.repository).
THEOREM RevokedKeysRefused == Spec => []RevokedKeyRefused
<1>1. IInv => RevokedKeyRefused
  <2> SUFFICES ASSUME IInv, NEW r \in Requests
               PROVE  /\ Answered(r) /\ reqs[r].status = 204 => keys[reqs[r].plan.target].revoked
                      /\ reqs[r].late /\ Routes[RouteOf(r)].credential = "any" => reqs[r].user = None
    BY DEF RevokedKeyRefused
  <2>1. Good(r, reqs[r], keys, audit, hash_order)
    BY GoodHere
  <2>2. Answered(r) /\ reqs[r].status = 204 => keys[reqs[r].plan.target].revoked
    BY <2>1 DEF Good, Answers, Answered, At
  <2>3. reqs[r].late /\ Routes[RouteOf(r)].credential = "any" => reqs[r].user = None
    BY <2>1 DEF Good, Late, Credential, RouteOf
  <2> QED
    BY <2>2, <2>3
<1> QED
  BY <1>1, Invariance, PTL

\* The audit log tells what happened, up to writes that failed: a revocation is
\* logged after it holds and is never forgotten, acceptance and refusal of a key
\* are told apart, and a denial is logged exactly where a role was the reason
\* (security.audit, api.exception_handlers).
THEOREM AuditIsTrue == Spec => []AuditTells
<1>1. IInv => AuditTells
  <2> SUFFICES ASSUME IInv PROVE AuditTells
    OBVIOUS
  <2>1. ASSUME NEW r \in Requests, Logged(r, "API_KEY_REVOKED")
        PROVE  keys[reqs[r].plan.target].revoked
    BY <2>1, GoodHere DEF Good, Log, Logged
  <2>2. ASSUME NEW k \in Keys, keys[k].revoked
        PROVE  \E r \in Requests : /\ reqs[r].plan # None /\ reqs[r].plan.target = k
                                   /\ \/ Logged(r, "API_KEY_REVOKED") \/ reqs[r].lost \/ reqs[r].broke
                                      \/ reqs[r].event = "API_KEY_REVOKED" /\ At(r, "audit")
    <3>1. PICK r \in Requests : Shows(r, reqs[r], audit, k)
      BY <2>2 DEF IInv, RevocationsShow
    <3>2. reqs[r].plan \in ClientPlans
      BY <3>1, GoodHere DEF Good, Placed, Shows
    <3>3. reqs[r].plan # None
      BY <3>2, NoneAssumption
    <3> QED
      BY <3>1, <3>3 DEF Shows, Logged, At
  <2>3. ASSUME NEW r \in Requests, Answered(r), ~reqs[r].lost
        PROVE  /\ Logged(r, "API_KEY_AUTH_FAILURE") =>
                    reqs[r].user = None /\ reqs[r].status \in {401, 403}
               /\ Logged(r, "API_KEY_AUTH_SUCCESS") <=>
                    /\ reqs[r].user # None /\ reqs[r].plan.key # None
                    /\ Routes[RouteOf(r)].credential = "any"
               /\ Logged(r, "AUTHORIZATION_DENIED") <=> reqs[r].user # None /\ reqs[r].status = 403
    <3>1. Log(r, reqs[r], keys, audit)
      BY GoodHere DEF Good
    <3>2. reqs[r].pc = "done"
      BY <2>3 DEF Answered, At
    <3>3. Logged(r, "API_KEY_AUTH_FAILURE") =>
            reqs[r].user = None /\ reqs[r].status \in {401, 403}
      BY <2>3, <3>1, <3>2 DEF Log, Logged
    <3>4. Logged(r, "API_KEY_AUTH_SUCCESS") <=> reqs[r].user # None /\ ByKey(reqs[r])
      BY <2>3, <3>1, <3>2 DEF Log, Logged
    <3>5. Logged(r, "AUTHORIZATION_DENIED") <=> reqs[r].user # None /\ reqs[r].status = 403
      BY <2>3, <3>1, <3>2 DEF Log, Logged
    <3> QED
      BY <3>3, <3>4, <3>5 DEF ByKey, Credential, RouteOf
  <2> QED
    BY <2>1, <2>2, <2>3 DEF AuditTells
<1> QED
  BY <1>1, Invariance, PTL

\* A 500 has one of the known reasons, a question that was let in always gets
\* its 200, and only the handler of last resort answers without the middlewares'
\* headers (api.exception_handlers).
THEOREM ErrorsAreExplained == Spec => []ErrorsExplained
<1>1. IInv => ErrorsExplained
  <2> SUFFICES ASSUME IInv, NEW r \in Requests, Answered(r)
               PROVE  /\ reqs[r].status = 500 =>
                           \/ Explained(reqs[r])
                           \/ /\ RouteOf(r) = "sql"
                              /\ reqs[r].generation.error \in Failures \ {"EmptyQuestionError"}
                      /\ RouteOf(r) = "query" /\ reqs[r].generation # None => reqs[r].status = 200
                      /\ ~reqs[r].headers => reqs[r].status = 500 /\ reqs[r].generation = None
    BY DEF ErrorsExplained, Explained, RouteOf
  <2> QED
    BY GoodHere DEF Good, Answers, Answered, At, RouteOf
<1> QED
  BY <1>1, Invariance, PTL

\* The pool never hands out more connections than it has, counts exactly the
\* requests that hold one, and nobody who holds one waits for anything but its
\* own operation: what a leaked connection would break (sql_execution.connection,
\* db.session).
THEOREM ConnectionsAreCounted == Spec => []PoolCounts
<1>1. IInv => PoolCounts
  BY DEF IInv
<1> QED
  BY <1>1, Invariance, PTL
=============================================================================
