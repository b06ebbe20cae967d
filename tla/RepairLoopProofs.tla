-------------------------- MODULE RepairLoopProofs --------------------------
(***************************************************************************)
(* The repair loop keeps its promises for every set of issue codes and for *)
(* every bound on attempts, retries and delays.                            *)
(***************************************************************************)
EXTENDS RepairLoop, SequenceTheorems, WellFoundedInduction, TLAPS

-----------------------------------------------------------------------------
(* Induction over the naturals, on sets.                                   *)

LEMMA Least ==
  ASSUME NEW T, T \subseteq Nat, T # {}
  PROVE  \E x \in T : \A y \in T : x <= y
<1> DEFINE R == {p \in Nat \X Nat : p[1] < p[2]}
<1>1. IsWellFoundedOn(R, Nat)
  BY NatLessThanWellFounded DEF OpToRel
<1>2. PICK x \in T : \A y \in T : ~ (<<y, x>> \in R)
  <2> HIDE DEF R
  <2> QED BY <1>1, WFMin
<1>3. ASSUME NEW y \in T PROVE x <= y
  <2>1. x \in Nat /\ y \in Nat /\ ~ (<<y, x>> \in R)
    BY <1>2
  <2>2. ~ (y < x)
    BY <2>1
  <2> QED BY <2>1, <2>2
<1> QED BY <1>3

LEMMA SetInduction ==
  ASSUME NEW S, 0 \in S, \A n \in Nat : n \in S => n + 1 \in S
  PROVE  Nat \subseteq S
<1>1. SUFFICES ASSUME Nat \ S # {} PROVE FALSE
  OBVIOUS
<1>2. PICK x \in Nat \ S : \A y \in Nat \ S : x <= y
  BY <1>1, Least
<1>3. x # 0 /\ x - 1 \in Nat /\ ~ (x <= x - 1)
  OBVIOUS
<1>4. x - 1 \in S
  BY <1>2, <1>3
<1> QED BY <1>3, <1>4

\* The powers of two up to the n-th.
Powers(n) == {f \in [0..n -> Nat] : f[0] = 1 /\ \A i \in 1..n : f[i] = 2 * f[i - 1]}

LEMMA PowersExist == ASSUME NEW n \in Nat PROVE Powers(n) # {}
<1> DEFINE S == {m \in Nat : Powers(m) # {}}
<1>1. 0 \in S
  <2>1. [i \in 0..0 |-> 1] \in Powers(0)
    BY DEF Powers
  <2> QED BY <2>1
<1>2. ASSUME NEW m \in Nat, m \in S PROVE m + 1 \in S
  <2>1. PICK f \in Powers(m) : TRUE
    BY <1>2
  <2> DEFINE g == [i \in 0..(m + 1) |-> IF i <= m THEN f[i] ELSE 2 * f[m]]
  <2>2. f \in [0..m -> Nat] /\ f[0] = 1 /\ \A i \in 1..m : f[i] = 2 * f[i - 1]
    BY <2>1 DEF Powers
  <2>3. g \in [0..(m + 1) -> Nat]
    <3>1. ASSUME NEW i \in 0..(m + 1) PROVE (IF i <= m THEN f[i] ELSE 2 * f[m]) \in Nat
      BY <2>2
    <3> QED BY <3>1
  <2>4. g[0] = 1
    BY <2>2
  <2>5. ASSUME NEW i \in 1..(m + 1) PROVE g[i] = 2 * g[i - 1]
    BY <2>2
  <2>6. g \in Powers(m + 1)
    <3> HIDE DEF g
    <3> QED BY <2>3, <2>4, <2>5 DEF Powers
  <2> QED BY <2>6
<1>3. Nat \subseteq S
  <2> HIDE DEF S
  <2> QED BY <1>1, <1>2, SetInduction
<1> QED BY <1>3

LEMMA PowersAgree ==
  ASSUME NEW m \in Nat, NEW n \in Nat, NEW f \in Powers(m), NEW g \in Powers(n)
  PROVE  \A i \in 0..m : i <= n => f[i] = g[i]
<1> DEFINE S == {i \in Nat : i <= m /\ i <= n => f[i] = g[i]}
<1>1. 0 \in S
  BY DEF Powers
<1>2. ASSUME NEW i \in Nat, i \in S PROVE i + 1 \in S
  <2>1. SUFFICES ASSUME i + 1 <= m, i + 1 <= n PROVE f[i + 1] = g[i + 1]
    OBVIOUS
  <2>2. f[i + 1] = 2 * f[i] /\ g[i + 1] = 2 * g[i]
    <3>1. i + 1 \in 1..m /\ i + 1 \in 1..n /\ (i + 1) - 1 = i
      BY <2>1
    <3> QED BY <3>1 DEF Powers
  <2> QED BY <1>2, <2>1, <2>2
<1>3. Nat \subseteq S
  <2> HIDE DEF S
  <2> QED BY <1>1, <1>2, SetInduction
<1> QED BY <1>3

\* Pow2 satisfies its own equation.
LEMMA Pow2Recurs ==
  /\ Pow2[0] = 1
  /\ \A n \in Nat : Pow2[n] \in Nat /\ Pow2[n + 1] = 2 * Pow2[n]
<1> DEFINE P(n) == CHOOSE f \in Powers(n) : TRUE
           F == [n \in Nat |-> P(n)[n]]
<1>1. \A n \in Nat : P(n) \in Powers(n)
  BY PowersExist
<1>2. F[0] = 1
  BY <1>1 DEF Powers
<1>3. ASSUME NEW n \in Nat PROVE F[n] \in Nat /\ F[n + 1] = 2 * F[n]
  <2>1. P(n)[n] = P(n + 1)[n]
    <3> HIDE DEF P
    <3> QED BY <1>1, PowersAgree
  <2>2. P(n + 1)[n + 1] = 2 * P(n + 1)[n] /\ P(n)[n] \in Nat
    <3>1. n + 1 \in 1..(n + 1) /\ (n + 1) - 1 = n /\ n \in 0..n
      OBVIOUS
    <3> HIDE DEF P
    <3> QED BY <1>1, <3>1 DEF Powers
  <2> HIDE DEF P
  <2> QED BY <2>1, <2>2
<1>4. F = [n \in Nat |-> IF n = 0 THEN 1 ELSE 2 * F[n - 1]]
  <2>1. ASSUME NEW n \in Nat PROVE F[n] = IF n = 0 THEN 1 ELSE 2 * F[n - 1]
    <3>1. CASE n = 0 
      BY <3>1, <1>2
    <3>2. CASE n # 0
      <4>1. n - 1 \in Nat /\ (n - 1) + 1 = n
        BY <3>2
      <4> HIDE DEF F
      <4> QED BY <1>3, <3>2, <4>1
    <3> QED BY <3>1, <3>2
  <2>2. DOMAIN F = Nat /\ F = [n \in Nat |-> F[n]]
    OBVIOUS
  <2> HIDE DEF F
  <2> QED BY <2>1, <2>2
<1>5. Pow2 = [n \in Nat |-> IF n = 0 THEN 1 ELSE 2 * Pow2[n - 1]]
  <2> HIDE DEF F
  <2> QED BY <1>4 DEF Pow2
<1> DEFINE S == {n \in Nat : Pow2[n] \in Nat}
<1>6. 0 \in S
  BY <1>5
<1>7. \A n \in Nat : Pow2[n + 1] = 2 * Pow2[n]
  <2>1. ASSUME NEW n \in Nat PROVE Pow2[n + 1] = 2 * Pow2[n]
    <3>1. n + 1 \in Nat /\ n + 1 # 0 /\ (n + 1) - 1 = n
      OBVIOUS
    <3> QED BY <1>5, <3>1
  <2> QED BY <2>1
<1>8. \A n \in Nat : n \in S => n + 1 \in S
  BY <1>7
<1>9. Nat \subseteq S
  <2> HIDE DEF S
  <2> QED BY <1>6, <1>8, SetInduction
<1> QED BY <1>5, <1>7, <1>9

-----------------------------------------------------------------------------
(* The inductive invariant.                                                *)

\* The loop is under way: another attempt is allowed and still makes sense.
Running == pc \in {"plan", "llm", "extract"}

Progress ==
  /\ Running => history = <<>> \/ ShouldContinue(history)
  /\ Running => status = "none" /\ error = "none"
  /\ pc \in {"llm", "extract"} => Repairable(validation)
  /\ pc = "raised" => Len(history) < MaxAttempts
  /\ Len(history) <= MaxAttempts

\* Every attempt but the last left errors that could be repaired, others than
\* the attempt before it.
Worthwhile ==
  \A k \in DOMAIN history :
    k < Len(history) =>
      /\ ~ (history[k].validation.errors \subseteq {Internal})
      /\ k > 1 => history[k].validation.errors # history[k - 1].validation.errors

\* What the finished attempts and the current one may have cost.
Spent ==
  /\ Len(delays) <= MaxRetries
  /\ pc \in {"plan", "done"} => calls <= Len(history) * (MaxRetries + 1)
  /\ pc = "llm" => calls <= Len(history) * (MaxRetries + 1) + Len(delays)
  /\ pc \in {"extract", "raised"} => calls <= Len(history) * (MaxRetries + 1) + Len(delays) + 1

Sleeps ==
  /\ \A k \in DOMAIN delays : delays[k] = DelayFor(k)
  /\ error = "retry_exhausted" => Len(delays) = MaxRetries /\ pc = "raised"

IInv == TypeOK /\ HistoryChains /\ Progress /\ Worthwhile /\ Spent /\ Sleeps /\ StatusHonest

-----------------------------------------------------------------------------
(* The planner and the strategy.                                           *)

LEMMA ReasonTyped == ASSUME NEW c PROVE ReasonOf(c) \in (0..11) \cup {99}
  BY DEF ReasonOf

\* There is a most urgent reason as soon as there is an issue.
LEMMA PrimaryReasonUrgent ==
  ASSUME NEW v, Issues(v) # {}
  PROVE  /\ PrimaryReason(v) \in 0..99
         /\ PrimaryReason(v) \in {ReasonOf(c) : c \in Issues(v)}
         /\ \A c \in Issues(v) : PrimaryReason(v) <= ReasonOf(c)
<1> DEFINE R == {ReasonOf(c) : c \in Issues(v)}
<1>1. R # {} /\ R \subseteq 0..99 /\ R \subseteq Nat
  BY ReasonTyped
<1>2. \E r \in R : \A s \in R : r <= s
  <2> HIDE DEF R
  <2> QED BY <1>1, Least
<1>3. \E r \in R : \A c \in Issues(v) : r <= ReasonOf(c)
  BY <1>2
<1>4. /\ PrimaryReason(v) \in R
      /\ \A c \in Issues(v) : PrimaryReason(v) <= ReasonOf(c)
  BY <1>3 DEF PrimaryReason
<1> QED BY <1>1, <1>4

LEMMA DelayTyped == ASSUME NEW k \in Nat \ {0} PROVE DelayFor(k) \in 0..MaxDelay
<1>1. k - 1 \in Nat
  OBVIOUS
<1> QED BY <1>1, Pow2Recurs, RepairAssumption DEF DelayFor

\* A delay is doubled until the cap is reached.
LEMMA DelayGrows ==
  ASSUME NEW k \in Nat, k > 1
  PROVE  /\ DelayFor(k - 1) <= DelayFor(k)
         /\ DelayFor(k) = 2 * DelayFor(k - 1) \/ DelayFor(k) = MaxDelay
<1>1. k - 2 \in Nat /\ (k - 2) + 1 = k - 1 /\ (k - 1) - 1 = k - 2
  OBVIOUS
<1>2. Pow2[k - 1] = 2 * Pow2[k - 2] /\ Pow2[k - 2] \in Nat
  BY <1>1, Pow2Recurs
<1> QED BY <1>1, <1>2, RepairAssumption DEF DelayFor

\* n attempts of m calls each.
LEMMA Products ==
  ASSUME NEW a \in Nat, NEW b \in Nat, NEW m \in Nat, a <= b
  PROVE  /\ a * m \in Nat
         /\ a * m <= b * m
         /\ (a + 1) * m = a * m + m
  OBVIOUS

LEMMA InitIInv == Init => IInv
<1> SUFFICES ASSUME Init PROVE IInv
  OBVIOUS
<1> USE RepairAssumption
<1>1. TypeOK
  BY DEF Init, TypeOK, Reports
<1>2. HistoryChains
  BY DEF Init, HistoryChains
<1>3. Progress
  BY DEF Init, Progress, Running
<1>4. Worthwhile /\ Spent /\ Sleeps /\ StatusHonest
  BY DEF Init, Worthwhile, Spent, Sleeps, StatusHonest
<1> QED BY <1>1, <1>2, <1>3, <1>4 DEF IInv

LEMMA PlanKeepsIInv == IInv /\ Plan => IInv'
<1> SUFFICES ASSUME IInv, Plan PROVE IInv'
  OBVIOUS
<1> USE RepairAssumption DEF IInv
<1>1. /\ pc = "plan" /\ pc' \in {"llm", "done"} /\ delays' = <<>>
      /\ UNCHANGED <<sql, original, validation, history, calls, error>>
  BY DEF Plan
<1>2. status' \in Statuses \cup {"none"}
  BY DEF Plan, TypeOK, FinalStatus, Statuses
<1>3. TypeOK'
  <2>1. <<>> \in Seq(0..MaxDelay)
    OBVIOUS
  <2> QED BY <1>1, <1>2, <2>1 DEF TypeOK
<1>4. HistoryChains' /\ Worthwhile'
  BY <1>1 DEF HistoryChains, Worthwhile
<1>5. Progress'
  BY <1>1 DEF Plan, Progress, Running
<1>6. Spent'
  <2>1. Len(history) \in Nat
    BY DEF TypeOK
  <2> QED BY <1>1, <2>1 DEF Spent
<1>7. Sleeps'
  BY <1>1 DEF Sleeps, Progress, Running
<1>8. StatusHonest'
  <2>1. SUFFICES ASSUME pc' = "done" PROVE StatusHonest'
    BY DEF StatusHonest
  <2>2. status' = FinalStatus(history) /\ ~ Repairable(validation)
    BY <2>1 DEF Plan
  <2>3. CASE history = <<>>
    <3>1. status' = "unrepairable"
      BY <2>2, <2>3 DEF FinalStatus
    <3>2. Issues(validation) \subseteq {Internal} /\ sql = 0 /\ validation = original
      BY <2>2, <2>3 DEF Repairable, HistoryChains
    <3> QED BY <1>1, <2>3, <3>1, <3>2 DEF StatusHonest
  <2>4. CASE history # <<>>
    <3>1. ShouldContinue(history)
      BY <1>1, <2>4 DEF Progress, Running
    <3>2. status' = "unrepairable"
      BY <2>2, <3>1 DEF FinalStatus, ShouldContinue, TypeOK
    <3>3. validation = Last(history).validation /\ ~ Last(history).success
      BY <2>4, <3>1 DEF HistoryChains, ShouldContinue
    <3>4. Len(history) \in DOMAIN history
      BY <2>4 DEF TypeOK
    <3>5. validation.errors # {}
      BY <3>3, <3>4 DEF HistoryChains, Last
    <3>6. Issues(validation) \subseteq {Internal}
      BY <2>2 DEF Repairable
    <3> QED BY <1>1, <2>4, <3>2, <3>5, <3>6 DEF StatusHonest
  <2> QED BY <2>3, <2>4
<1> QED BY <1>3, <1>4, <1>5, <1>6, <1>7, <1>8

\* Everything that happens inside the LLM call.
LEMMA CallKeepsIInv ==
  ASSUME IInv,
         ProviderFailsTransiently \/ ProviderFailsForGood \/ ProviderAnswers \/ ExtractionRaises
  PROVE  IInv'
<1> USE RepairAssumption DEF IInv
<1>1. /\ pc \in {"llm", "extract"}
      /\ UNCHANGED <<sql, original, validation, history, status>>
  BY DEF ProviderFailsTransiently, ProviderFailsForGood, ProviderAnswers, ExtractionRaises
<1>2. Len(history) \in Nat /\ Len(delays) \in Nat /\ calls \in Nat
  BY DEF TypeOK
<1>3. history = <<>> \/ ShouldContinue(history)
  BY <1>1 DEF Progress, Running
<1>4. Len(history) < MaxAttempts
  BY <1>2, <1>3 DEF ShouldContinue
<1>5. HistoryChains' /\ Worthwhile'
  BY <1>1 DEF HistoryChains, Worthwhile
<1>6. StatusHonest'
  BY <1>1 DEF StatusHonest, ProviderFailsTransiently, ProviderFailsForGood, ProviderAnswers,
              ExtractionRaises
<1>7. CASE ProviderFailsTransiently /\ Len(delays) < MaxRetries
  <2>1. /\ delays' = Append(delays, DelayFor(Len(delays) + 1))
        /\ pc' = "llm" /\ pc = "llm" /\ error' = error /\ calls' = calls + 1
    BY <1>2, <1>7 DEF ProviderFailsTransiently
  <2>2. Len(delays) + 1 \in Nat \ {0}
    BY <1>2
  <2>3. DelayFor(Len(delays) + 1) \in 0..MaxDelay
    BY <2>2, DelayTyped
  <2>4. /\ delays' \in Seq(0..MaxDelay) /\ Len(delays') = Len(delays) + 1
        /\ \A k \in 1..Len(delays) : delays'[k] = delays[k]
        /\ delays'[Len(delays) + 1] = DelayFor(Len(delays) + 1)
        /\ DOMAIN delays = 1..Len(delays) /\ DOMAIN delays' = 1..(Len(delays) + 1)
    BY <2>1, <2>3, AppendProperties DEF TypeOK
  <2>5. TypeOK'
    BY <1>1, <1>2, <2>1, <2>4 DEF TypeOK
  <2>6. Progress'
    BY <1>1, <2>1 DEF Progress, Running
  <2>7. Spent'
    <3>1. Len(history) * (MaxRetries + 1) \in Nat
      BY <1>2
    <3> QED BY <1>1, <1>2, <1>7, <2>1, <2>4, <3>1 DEF Spent
  <2>8. Sleeps'
    <3>1. ASSUME NEW k \in DOMAIN delays' PROVE delays'[k] = DelayFor(k)
      <4>1. CASE k \in 1..Len(delays)
        BY <2>4, <4>1 DEF Sleeps
      <4>2. CASE k = Len(delays) + 1
        BY <2>4, <4>2
      <4> QED BY <1>2, <2>4, <4>1, <4>2
    <3> QED BY <2>1, <3>1 DEF Sleeps, Progress, Running
  <2> QED BY <1>5, <1>6, <2>5, <2>6, <2>7, <2>8
<1>8. CASE ~ (ProviderFailsTransiently /\ Len(delays) < MaxRetries)
  <2>1. /\ delays' = delays /\ calls' \in {calls, calls + 1} /\ pc' \in {"extract", "raised"}
        /\ pc = "extract" => calls' = calls
        /\ error' \in {"none", "retry_exhausted", "provider", "extraction"}
        /\ error' = "retry_exhausted" => pc' = "raised" /\ Len(delays) = MaxRetries
        /\ pc' = "extract" => error' = "none"
    BY <1>1, <1>2, <1>8, SMTT(30) DEF ProviderFailsTransiently, ProviderFailsForGood, ProviderAnswers, ExtractionRaises,
              Spent, Progress, Running, Sleeps, TypeOK
  <2>2. TypeOK'
    BY <1>1, <1>2, <2>1 DEF TypeOK
  <2>3. Progress'
    BY <1>1, <1>4, <2>1 DEF Progress, Running
  <2>4. Spent'
    <3>1. Len(history) * (MaxRetries + 1) \in Nat
      BY <1>2
    <3> QED BY <1>1, <1>2, <2>1, <3>1 DEF Spent
  <2>5. Sleeps'
    BY <2>1 DEF Sleeps
  <2> QED BY <1>5, <1>6, <2>2, <2>3, <2>4, <2>5
<1> QED BY <1>7, <1>8

\* The attempt that is appended to the history.
Entry(found) ==
  [number |-> Len(history) + 1, reason |-> PrimaryReason(validation), input |-> sql,
   output |-> Len(history) + 1, validation |-> [errors |-> found, warnings |-> {}],
   retries |-> Len(delays), success |-> found = {}]

LEMMA AttemptKeepsIInv ==
  ASSUME IInv, NEW found \in SUBSET Codes, AttemptRecorded(found)
  PROVE  IInv'
<1> USE RepairAssumption DEF IInv
<1> DEFINE L == Len(history)
           e == Entry(found)
<1>1. /\ pc = "extract" /\ history' = Append(history, e) /\ sql' = L + 1
      /\ validation' = [errors |-> found, warnings |-> {}]
      /\ pc' \in {"plan", "done"}
      /\ pc' = "plan" <=> ShouldContinue(history')
      /\ status' = IF pc' = "plan" THEN status ELSE FinalStatus(history')
      /\ UNCHANGED <<original, delays, calls, error>>
  BY DEF AttemptRecorded, Entry
<1>2. L \in Nat /\ Len(delays) \in Nat /\ calls \in Nat /\ Len(delays) <= MaxRetries
  BY DEF TypeOK, Spent
<1>3. history = <<>> \/ ShouldContinue(history)
  BY <1>1 DEF Progress, Running
<1>4. L < MaxAttempts
  BY <1>2, <1>3 DEF ShouldContinue
<1>5. Issues(validation) # {} /\ ~ (Issues(validation) \subseteq {Internal})
  BY <1>1 DEF Progress, Repairable
<1>6. /\ PrimaryReason(validation) \in 0..99
      /\ PrimaryReason(validation) \in {ReasonOf(c) : c \in Issues(validation)}
      /\ \A c \in Issues(validation) : PrimaryReason(validation) <= ReasonOf(c)
  BY <1>5, PrimaryReasonUrgent
<1>7. /\ e.number = L + 1 /\ e.reason = PrimaryReason(validation) /\ e.input = sql
      /\ e.output = L + 1 /\ e.validation = validation'
      /\ e.validation.errors = found /\ validation'.errors = found
  BY <1>1 DEF Entry
<1>71. (e.success => found = {}) /\ (found = {} => e.success)
  BY Zenon DEF Entry
<1>8. e \in Attempts
  <2>1. validation' \in Reports
    BY <1>1 DEF Reports
  <2>2. sql \in Nat
    BY DEF TypeOK
  <2> QED BY <1>1, <1>2, <1>6, <2>1, <2>2 DEF Entry, Attempts
<1> HIDE DEF e
<1>9. /\ history' \in Seq(Attempts) /\ Len(history') = L + 1 /\ history' # <<>>
      /\ \A k \in 1..L : history'[k] = history[k]
      /\ history'[L + 1] = e
      /\ DOMAIN history = 1..L /\ DOMAIN history' = 1..(L + 1)
  BY <1>1, <1>8, AppendProperties DEF TypeOK
<1>10. Last(history') = e /\ (L > 0 => Last(history) = history[L] /\ history # <<>>)
  BY <1>9 DEF Last
<1>11. L > 0 => /\ validation = history[L].validation
                /\ ~ history[L].success
                /\ history[L].validation.errors # {}
                /\ L > 1 => history[L].validation.errors # history[L - 1].validation.errors
  <2>1. SUFFICES ASSUME L > 0
                 PROVE  /\ validation = history[L].validation
                        /\ ~ history[L].success
                        /\ history[L].validation.errors # {}
                        /\ L > 1 => history[L].validation.errors # history[L - 1].validation.errors
    OBVIOUS
  <2>2. history # <<>> /\ L \in DOMAIN history
    BY <1>2, <1>9, <1>10, <2>1
  <2>3. ShouldContinue(history)
    BY <1>3, <2>2
  <2>4. validation = history[L].validation /\ ~ history[L].success
    BY <2>2, <2>3 DEF HistoryChains, ShouldContinue, Last
  <2>5. history[L].validation.errors # {}
    BY <2>2, <2>4 DEF HistoryChains
  <2>6. ASSUME L > 1 PROVE history[L].validation.errors # history[L - 1].validation.errors
    BY <1>2, <2>3, <2>6 DEF ShouldContinue, MadeProgress
  <2> QED BY <2>4, <2>5, <2>6
<1>12. L = 0 => validation = original /\ history = <<>>
  BY DEF HistoryChains, TypeOK
<1>13. status' \in Statuses \cup {"none"}
  BY <1>1 DEF TypeOK, FinalStatus, Statuses
<1>14. TypeOK'
  <2>1. validation' \in Reports
    BY <1>1 DEF Reports
  <2> QED BY <1>1, <1>2, <1>9, <1>13, <2>1 DEF TypeOK
<1>15. HistoryChains'
  <2>1. ASSUME NEW k \in 1..(L + 1)
        PROVE  LET before == IF k = 1 THEN original ELSE history'[k - 1].validation
               IN  /\ history'[k].number = k
                   /\ history'[k].input = k - 1
                   /\ history'[k].output = k
                   /\ history'[k].reason \in {ReasonOf(c) : c \in Issues(before)}
                   /\ \A c \in Issues(before) : history'[k].reason <= ReasonOf(c)
                   /\ history'[k].success <=> history'[k].validation.errors = {}
                   /\ history'[k].success => k = L + 1
    <3>1. CASE k <= L
      <4>1. k \in DOMAIN history /\ history'[k] = history[k] /\ (k > 1 => history'[k - 1] = history[k - 1])
        BY <1>2, <1>9, <3>1
      <4>2. ~ history[k].success
        BY <1>2, <1>11, <3>1, <4>1 DEF HistoryChains
      <4> QED BY <4>1, <4>2 DEF HistoryChains
    <3>2. CASE k = L + 1
      <4>1. history'[k] = e /\ sql = L
        BY <1>9, <3>2 DEF HistoryChains
      <4>2. validation = IF k = 1 THEN original ELSE history'[k - 1].validation
        BY <1>2, <1>9, <1>11, <1>12, <3>2
      <4>3. history'[k].number = k /\ history'[k].input = k - 1 /\ history'[k].output = k
        BY <1>2, <1>7, <3>2, <4>1
      <4>5. history'[k].success <=> history'[k].validation.errors = {}
        BY <1>7, <1>71, <4>1, Zenon
      <4>4. /\ history'[k].reason \in {ReasonOf(c) : c \in Issues(validation)}
            /\ \A c \in Issues(validation) : history'[k].reason <= ReasonOf(c)
        BY <1>6, <1>7, <4>1
      <4> QED BY <3>2, <4>2, <4>3, <4>4, <4>5
    <3> QED BY <1>2, <3>1, <3>2
  <2>2. sql' = Len(history')
    BY <1>1, <1>9
  <2>3. validation' = Last(history').validation
    BY <1>7, <1>10
  <2> QED BY <1>1, <1>9, <2>1, <2>2, <2>3 DEF HistoryChains
<1>16. Progress'
  BY <1>1, <1>2, <1>4, <1>9 DEF Progress, Running
<1>17. Worthwhile'
  <2>1. ASSUME NEW k \in 1..L
        PROVE  /\ ~ (history'[k].validation.errors \subseteq {Internal})
               /\ k > 1 => history'[k].validation.errors # history'[k - 1].validation.errors
    <3>1. history'[k] = history[k] /\ (k > 1 => history'[k - 1] = history[k - 1])
      BY <1>2, <1>9
    <3>2. CASE k < L
      BY <1>9, <3>1, <3>2 DEF Worthwhile
    <3>3. CASE k = L
      <4>1. Issues(validation) = history[L].validation.errors
        BY <1>2, <1>11, <3>3 DEF Issues
      <4> QED BY <1>2, <1>5, <1>11, <3>1, <3>3, <4>1
    <3> QED BY <1>2, <3>2, <3>3
  <2> QED BY <1>2, <1>9, <2>1 DEF Worthwhile
<1>18. Spent'
  <2>1. (L + 1) * (MaxRetries + 1) = L * (MaxRetries + 1) + (MaxRetries + 1)
        /\ L * (MaxRetries + 1) \in Nat
    BY <1>2, Products
  <2>2. calls <= L * (MaxRetries + 1) + Len(delays) + 1
    BY <1>1 DEF Spent
  <2>3. calls <= (L + 1) * (MaxRetries + 1)
    BY <1>2, <2>1, <2>2
  <2> QED BY <1>1, <1>2, <1>9, <2>3 DEF Spent
<1>19. Sleeps'
  BY <1>1 DEF Sleeps, Progress, Running
<1>20. StatusHonest'
  <2>1. SUFFICES ASSUME pc' = "done" PROVE StatusHonest'
    BY DEF StatusHonest
  <2>2. status' = FinalStatus(history') /\ ~ ShouldContinue(history')
    BY <1>1, <2>1
  <2>3. L > 0 => (MadeProgress(history') <=> found # history[L].validation.errors)
    <3>1. SUFFICES ASSUME L > 0
                   PROVE  MadeProgress(history') <=> found # history[L].validation.errors
      OBVIOUS
    <3>2. history'[Len(history')] = e /\ history'[Len(history') - 1] = history[L]
      BY <1>2, <1>9, <3>1
    <3> QED BY <1>7, <3>2 DEF MadeProgress
  <2>4. CASE found = {}
    <3>1. status' = "repaired"
      BY <1>71, <1>9, <1>10, <2>2, <2>4 DEF FinalStatus
    <3> QED BY <1>7, <1>9, <2>4, <3>1 DEF StatusHonest
  <2>5. CASE found # {} /\ L > 0 /\ found = history[L].validation.errors
    <3>1. status' = "no_progress"
      <4>1. Len(history') >= 2 /\ ~ MadeProgress(history') /\ ~ Last(history').success
        BY <1>2, <1>71, <1>9, <1>10, <2>3, <2>5
      <4> QED BY <1>9, <2>2, <4>1 DEF FinalStatus
    <3>2. history'[Len(history') - 1] = history[L]
      BY <1>2, <1>9, <2>5
    <3>3. Len(history') >= 2 /\ found = history'[Len(history') - 1].validation.errors
      BY <1>2, <1>9, <2>5, <3>2
    <3> QED BY <1>7, <1>9, <2>5, <3>1, <3>3 DEF StatusHonest
  <2>6. CASE found # {} /\ ~ (L > 0 /\ found = history[L].validation.errors)
    <3>1. ~ Last(history').success /\ (Len(history') < 2 \/ MadeProgress(history'))
      <4>1. ~ Last(history').success
        BY <1>71, <1>10, <2>6
      <4>2. CASE L = 0
        BY <1>9, <4>1, <4>2
      <4>3. CASE L > 0
        BY <2>3, <2>6, <4>1, <4>3
      <4> QED BY <1>2, <4>2, <4>3
    <3>2. L + 1 = MaxAttempts
      BY <1>2, <1>4, <1>9, <2>2, <3>1 DEF ShouldContinue
    <3>3. status' = "max_attempts_reached"
      BY <1>2, <1>9, <2>2, <3>1, <3>2 DEF FinalStatus
    <3> QED BY <1>7, <1>9, <2>6, <3>2, <3>3 DEF StatusHonest
  <2> QED BY <2>4, <2>5, <2>6
<1> QED BY <1>14, <1>15, <1>16, <1>17, <1>18, <1>19, <1>20

LEMMA NextKeepsIInv == IInv /\ [Next]_vars => IInv'
<1> SUFFICES ASSUME IInv, [Next]_vars PROVE IInv'
  OBVIOUS
<1>1. CASE Next
  BY <1>1, PlanKeepsIInv, CallKeepsIInv, AttemptKeepsIInv DEF Next
<1>2. CASE UNCHANGED vars
  BY <1>2 DEF vars, IInv, TypeOK, HistoryChains, Progress, Running, Worthwhile, Spent, Sleeps,
              StatusHonest
<1> QED BY <1>1, <1>2

\* The inductive invariant holds in every run of the loop.
THEOREM Invariance == Spec => []IInv
  BY InitIInv, NextKeepsIInv, PTL DEF Spec

\* The variables of the loop keep their types.
THEOREM RepairTyped == Spec => []TypeOK
<1>1. IInv => TypeOK
  BY DEF IInv
<1> QED BY Invariance, <1>1, PTL

\* The status of a repair tells why it stopped, and REPAIRED is claimed of
\* valid SQL only (engine.repair, RepairStrategy.final_status).
THEOREM StatusIsHonest == Spec => []StatusHonest
<1>1. IInv => StatusHonest
  BY DEF IInv
<1> QED BY Invariance, <1>1, PTL

\* The attempts form one chain, each told the most urgent reason of the SQL
\* it starts from (engine.repair, RepairPlanner.plan).
THEOREM AttemptsChain == Spec => []HistoryChains
<1>1. IInv => HistoryChains
  BY DEF IInv
<1> QED BY Invariance, <1>1, PTL

\* No attempt, and no call of the model, beyond the limits or without a
\* prospect (RepairStrategy.should_continue, RetryPolicy.execute).
THEOREM CallsAreBounded == Spec => []NoWastedCalls
<1>1. IInv => NoWastedCalls
  <2> SUFFICES ASSUME IInv PROVE NoWastedCalls
    OBVIOUS
  <2> USE RepairAssumption DEF IInv
  <2>1. Len(history) \in Nat /\ Len(delays) \in Nat /\ calls \in Nat
    BY DEF TypeOK
  <2>2. Running => Len(history) < MaxAttempts
    BY <2>1 DEF Progress, ShouldContinue
  <2>3. /\ Len(history) * (MaxRetries + 1) \in Nat
        /\ Len(history) * (MaxRetries + 1) <= MaxAttempts * (MaxRetries + 1)
        /\ MaxAttempts * (MaxRetries + 1) \in Nat
    BY <2>1, Products DEF Progress
  <2>4. Len(history) < MaxAttempts =>
          Len(history) * (MaxRetries + 1) + (MaxRetries + 1) <= MaxAttempts * (MaxRetries + 1)
    <3>1. SUFFICES ASSUME Len(history) < MaxAttempts
                   PROVE  Len(history) * (MaxRetries + 1) + (MaxRetries + 1)
                            <= MaxAttempts * (MaxRetries + 1)
      OBVIOUS
    <3>2. (Len(history) + 1) * (MaxRetries + 1) <= MaxAttempts * (MaxRetries + 1)
      BY <2>1, <3>1, Products
    <3> QED BY <2>1, <3>2, Products
  <2>5. calls <= MaxAttempts * (MaxRetries + 1)
    <3>1. CASE pc \in {"plan", "done"}
      BY <2>1, <2>3, <3>1 DEF Spent
    <3>2. CASE pc \in {"llm", "extract", "raised"}
      <4>1. Len(history) < MaxAttempts
        BY <2>2, <3>2 DEF Progress, Running
      <4>2. calls <= Len(history) * (MaxRetries + 1) + (MaxRetries + 1)
        BY <2>1, <2>3, <3>2 DEF Spent
      <4> QED BY <2>1, <2>3, <2>4, <4>1, <4>2
    <3> QED BY <3>1, <3>2 DEF TypeOK
  <2> QED BY <2>2, <2>5 DEF NoWastedCalls, Progress, Running, Worthwhile
<1> QED BY Invariance, <1>1, PTL

\* A call gives up only after its last retry, and its sleeps double up to the
\* cap (RetryPolicy.execute, delay_for_attempt).
THEOREM RetriesAreDisciplined == Spec => []RetryDiscipline
<1>1. IInv => RetryDiscipline
  <2> SUFFICES ASSUME IInv PROVE RetryDiscipline
    OBVIOUS
  <2> USE DEF IInv
  <2>1. ASSUME NEW k \in DOMAIN delays, k > 1
        PROVE  /\ delays[k - 1] <= delays[k]
               /\ delays[k] = 2 * delays[k - 1] \/ delays[k] = MaxDelay
    <3>1. k \in Nat /\ k - 1 \in DOMAIN delays
      BY <2>1 DEF TypeOK
    <3>2. delays[k] = DelayFor(k) /\ delays[k - 1] = DelayFor(k - 1)
      BY <3>1 DEF Sleeps
    <3> QED BY <2>1, <3>1, <3>2, DelayGrows
  <2> QED BY <2>1 DEF RetryDiscipline, Sleeps, Spent
<1> QED BY Invariance, <1>1, PTL
=============================================================================
