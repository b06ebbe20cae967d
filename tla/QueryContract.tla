--------------------------- MODULE QueryContract ---------------------------
(***************************************************************************)
(* What QueryMindEngine promises the callers of ask, ask_for_sql and       *)
(* repair, whatever its ten collaborators do: SQL reaches the database     *)
(* only after its final text was found valid, and only for a caller of     *)
(* ask; a SUCCESS answer is given only for SQL that ran successfully; a    *)
(* request is answered at most once, and a request nobody cancels is       *)
(* answered.                                                               *)
(***************************************************************************)
VARIABLES
  mayRun,   \* is this request allowed to execute SQL at all?
  vetted,   \* the current SQL has been validated and found valid
  ran,      \* "no", or how the database call ended: "ok" / "bad"
  outcome   \* "open", "success", "failed", "returned", "raised", "cancelled"

qvars == <<mayRun, vetted, ran, outcome>>

QInit ==
  /\ mayRun \in BOOLEAN
  /\ vetted \in BOOLEAN
  /\ ran = "no"
  /\ outcome = "open"

\* A verdict on the SQL: first validation, or the last of a repair.
Vet ==
  /\ outcome = "open"
  /\ ran = "no"
  /\ vetted' \in BOOLEAN
  /\ UNCHANGED <<mayRun, ran, outcome>>

Run ==
  /\ outcome = "open"
  /\ mayRun
  /\ vetted
  /\ ran = "no"
  /\ ran' \in {"ok", "bad"}
  /\ UNCHANGED <<mayRun, vetted, outcome>>

\* The answer, possibly together with the last verdict on the SQL.
Answer ==
  /\ outcome = "open"
  /\ \/ mayRun /\ outcome' = "success" /\ ran = "ok"
     \/ mayRun /\ outcome' = "failed"
     \/ ~mayRun /\ outcome' \in {"returned", "raised"}
  /\ vetted' \in BOOLEAN
  /\ ran # "no" => vetted' = vetted
  /\ UNCHANGED <<mayRun, ran>>

Abandon ==
  /\ outcome = "open"
  /\ mayRun
  /\ vetted
  /\ ran = "no"
  /\ outcome' = "cancelled"
  /\ UNCHANGED <<mayRun, vetted, ran>>

QNext == Vet \/ Run \/ Answer \/ Abandon

QSafety == QInit /\ [][QNext]_qvars

\* Nobody waits for ever.
QSpec == QSafety /\ <>(outcome # "open")
=============================================================================
