------------------------- MODULE UnderstandingProofs -------------------------
(***************************************************************************)
(* The stages before the model, for every dictionary, set of columns,      *)
(* library, budget and set of questions, and any number of concurrent      *)
(* requests.                                                               *)
(*                                                                         *)
(* The shared caches are invisible: an entry is what would be computed     *)
(* afresh.  So what a request holds is a function of its question, and the *)
(* rest is about that function: a recursive function of the model is shown *)
(* to exist and to be typed (Recursion), the join edges to be grounded and *)
(* to reach every table, every list of a prompt to have a length, and the  *)
(* budget to be taken out of any sections in order.                        *)
(***************************************************************************)
EXTENDS Understanding, FiniteSetTheorems, WellFoundedInduction, TLAPS

----------------------------------------------------------------------------
(* The inductive invariant.                                                *)

\* Every entry of a cache is what its owner would compute for that key.
LinkerCacheTrue ==
    \A k \in DOMAIN linkerCache : linkerCache[k] = GenerateCandidates(k[1], k[2])

FeatureCacheTrue ==
    \A e \in ToSet(Library) : e.id \in DOMAIN featureCache => featureCache[e.id] = ExampleFeatures(e)

PromptCacheTrue ==
    \A h \in DOMAIN promptCache : promptCache[h] = Prompt([linked |-> h[1], examples |-> h[2]])

\* What a request holds is what a fresh process would have made of its question.
ColdContext(c) == c.question \in Questions /\ c = Parse(c.question)
ColdLinked(l) == l = Link(<<>>, l.context) /\ ColdContext(l.context)

RequestTrue(q) ==
    /\ q.stage = "asked" => q.question \in Questions
    /\ q.stage = "parsed" => ColdContext(q.context)
    /\ q.stage = "linked" => ColdLinked(q.linked)
    /\ q.stage \in {"retrieved", "compiled", "bundled"} =>
          ColdLinked(q.bundle.linked) /\ q.bundle = Retrieve(<<>>, q.bundle.linked)
    /\ q.stage = "compiled" => q.prompt = Prompt(q.bundle)

IInv ==
    /\ DOMAIN req = Requests
    /\ LinkerCacheTrue /\ FeatureCacheTrue /\ PromptCacheTrue
    /\ \A r \in Requests : RequestTrue(req[r])

----------------------------------------------------------------------------
(* A true cache is as good as none.                                        *)

\* CacheKey tells tables from columns, and concepts apart.
LEMMA CachedIsFresh ==
  ASSUME NEW cache, \A k \in DOMAIN cache : cache[k] = GenerateCandidates(k[1], k[2]),
         NEW isTable, NEW concept
  PROVE  Cached(cache, isTable, concept) = Cached(<<>>, isTable, concept)
<1>1. CacheKey(isTable, concept)[1] = isTable /\ CacheKey(isTable, concept)[2] = concept
  BY DEF CacheKey
<1>2. DOMAIN <<>> = {}
  OBVIOUS
<1> QED BY <1>1, <1>2 DEF Cached

LEMMA WinnersAreFresh ==
  ASSUME NEW cache, \A k \in DOMAIN cache : cache[k] = GenerateCandidates(k[1], k[2]),
         NEW isTable, NEW concepts
  PROVE  Winners(cache, isTable, concepts) = Winners(<<>>, isTable, concepts)
BY CachedIsFresh DEF Winners

LEMMA LinkIsFresh ==
  ASSUME NEW cache, \A k \in DOMAIN cache : cache[k] = GenerateCandidates(k[1], k[2]),
         NEW context
  PROVE  Link(cache, context) = Link(<<>>, context)
<1>1. /\ Winners(cache, TRUE, context.entities) = Winners(<<>>, TRUE, context.entities)
      /\ Winners(cache, FALSE, Names(context.metrics)) = Winners(<<>>, FALSE, Names(context.metrics))
      /\ Winners(cache, FALSE, context.dimensions) = Winners(<<>>, FALSE, context.dimensions)
      /\ Winners(cache, FALSE, Fields(context.filters)) = Winners(<<>>, FALSE, Fields(context.filters))
      /\ Winners(cache, FALSE, Fields(context.sort)) = Winners(<<>>, FALSE, Fields(context.sort))
  BY WinnersAreFresh
<1> QED BY <1>1 DEF Link

LEMMA LinkKeepsContext ==
  ASSUME NEW cache, NEW context
  PROVE  Link(cache, context).context = context
BY DEF Link, LinkedQueryContext

LEMMA ParseKeepsQuestion ==
  ASSUME NEW q
  PROVE  Parse(q).question = q
BY DEF Parse, QueryContext

\* One lookup, one entry: the candidates of that lookup.
LEMMA CacheAfterTrue ==
  ASSUME NEW cache, \A k \in DOMAIN cache : cache[k] = GenerateCandidates(k[1], k[2]),
         NEW context
  PROVE  LET after == CacheAfter(cache, context)
         IN  \A k \in DOMAIN after : after[k] = GenerateCandidates(k[1], k[2])
<1> DEFINE lookups == Lookups(context)
           key(i) == CacheKey(lookups[i][1], lookups[i][2])
           found(k) == LET i == CHOOSE i \in DOMAIN lookups : key(i) = k
                       IN  GenerateCandidates(lookups[i][1], lookups[i][2])
           dom == DOMAIN cache \cup {key(i) : i \in DOMAIN lookups}
<1>1. CacheAfter(cache, context) = [k \in dom |-> IF k \in DOMAIN cache THEN cache[k] ELSE found(k)]
  BY DEF CacheAfter
<1>2. ASSUME NEW k, k \in {key(i) : i \in DOMAIN lookups} PROVE found(k) = GenerateCandidates(k[1], k[2])
  <2> HIDE DEF lookups
  <2>1. PICK i : i = CHOOSE n \in DOMAIN lookups : key(n) = k
    OBVIOUS
  <2>2. i \in DOMAIN lookups /\ key(i) = k
    BY <1>2, <2>1
  <2>3. k[1] = lookups[i][1] /\ k[2] = lookups[i][2]
    BY <2>2 DEF CacheKey
  <2> QED BY <2>1, <2>3
<1> HIDE DEF key, found, lookups
<1> QED BY <1>1, <1>2

\* Features are computed once per example, and ids name one example each.
LEMMA FeaturesAreFresh ==
  ASSUME NEW cache, NEW e \in ToSet(Library),
         e.id \in DOMAIN cache => cache[e.id] = ExampleFeatures(e)
  PROVE  Features(cache, e) = ExampleFeatures(e) /\ Features(<<>>, e) = ExampleFeatures(e)
<1>1. DOMAIN <<>> = {}
  OBVIOUS
<1> QED BY <1>1 DEF Features

LEMMA RetrieveIsFresh ==
  ASSUME NEW cache, NEW linked,
         \A e \in ToSet(Library) : e.id \in DOMAIN cache => cache[e.id] = ExampleFeatures(e)
  PROVE  Retrieve(cache, linked) = Retrieve(<<>>, linked)
<1> DEFINE scored(c) == {[id |-> e.id, rank |-> e.order,
                          score |-> ScoreExample(linked, e, Features(c, e))] : e \in ToSet(Library)}
<1>1. scored(cache) = scored(<<>>)
  BY FeaturesAreFresh
<1>2. /\ Retrieve(cache, linked) = [linked |-> linked, examples |-> Rank(scored(cache))]
      /\ Retrieve(<<>>, linked) = [linked |-> linked, examples |-> Rank(scored(<<>>))]
  BY DEF Retrieve
<1> HIDE DEF scored
<1> QED BY <1>1, <1>2

LEMMA FeaturesAfterTrue ==
  ASSUME NEW cache,
         \A e \in ToSet(Library) : e.id \in DOMAIN cache => cache[e.id] = ExampleFeatures(e)
  PROVE  \A e \in ToSet(Library) : FeaturesAfter(cache)[e.id] = ExampleFeatures(e)
<1> SUFFICES ASSUME NEW e \in ToSet(Library) PROVE FeaturesAfter(cache)[e.id] = ExampleFeatures(e)
  OBVIOUS
<1>1. \A f \in ToSet(Library) : f.id = e.id => f = e
  BY LibraryAssumption DEF ToSet
<1>2. (CHOOSE f \in ToSet(Library) : f.id = e.id) = e
  BY <1>1
<1>3. FeaturesAfter(cache)[e.id] = Features(cache, e)
  BY <1>2 DEF FeaturesAfter
<1> QED BY <1>3, FeaturesAreFresh

----------------------------------------------------------------------------
(* Every step keeps the invariant.                                         *)

LEMMA InitIInv == Init => IInv
<1> SUFFICES ASSUME Init PROVE IInv
  OBVIOUS
<1>1. DOMAIN <<>> = {}
  OBVIOUS
<1>2. LinkerCacheTrue /\ FeatureCacheTrue /\ PromptCacheTrue
  BY <1>1 DEF Init, LinkerCacheTrue, FeatureCacheTrue, PromptCacheTrue
<1>3. \A r \in Requests : req[r].stage = "idle"
  BY DEF Init, Idle
<1>4. \A r \in Requests : RequestTrue(req[r])
  BY <1>3 DEF RequestTrue
<1>5. DOMAIN req = Requests
  BY DEF Init
<1> QED BY <1>2, <1>4, <1>5 DEF IInv

\* A step moves one request; what the others hold does not depend on it.
LEMMA OneMoves ==
  ASSUME IInv, NEW r \in Requests, NEW q, To(r, q), RequestTrue(q)
  PROVE  DOMAIN req' = Requests /\ \A s \in Requests : RequestTrue(req'[s])
<1>1. DOMAIN req' = Requests /\ req'[r] = q /\ \A s \in Requests \ {r} : req'[s] = req[s]
  BY DEF To, IInv
<1> QED BY <1>1 DEF IInv

LEMMA CachesStay ==
  ASSUME IInv
  PROVE  /\ linkerCache' = linkerCache => LinkerCacheTrue'
         /\ featureCache' = featureCache => FeatureCacheTrue'
         /\ promptCache' = promptCache => PromptCacheTrue'
BY DEF IInv, LinkerCacheTrue, FeatureCacheTrue, PromptCacheTrue

LEMMA AskKeepsIInv ==
  ASSUME IInv, NEW r \in Requests, NEW question \in Questions, Ask(r, question)
  PROVE  IInv'
<1>1. RequestTrue([stage |-> "asked", question |-> question])
  BY DEF RequestTrue
<1>2. DOMAIN req' = Requests /\ \A s \in Requests : RequestTrue(req'[s])
  BY <1>1, OneMoves DEF Ask
<1> QED BY <1>2, CachesStay DEF Ask, IInv

LEMMA NluKeepsIInv ==
  ASSUME IInv, NEW r \in Requests, RunNlu(r)
  PROVE  IInv'
<1> DEFINE c == Parse(req[r].question)
<1>1. req[r].stage = "asked" => ColdContext(c)
  BY ParseKeepsQuestion DEF ColdContext, IInv, RequestTrue
<1>2. RequestTrue([stage |-> "parsed", context |-> c]) /\ RequestTrue([stage |-> "failed"])
  <2> HIDE DEF c
  <2> QED BY <1>1 DEF RequestTrue, RunNlu
<1>3. \E q : To(r, q) /\ RequestTrue(q)
  BY <1>2 DEF RunNlu
<1>4. DOMAIN req' = Requests /\ \A s \in Requests : RequestTrue(req'[s])
  BY <1>3, OneMoves
<1> QED BY <1>4, CachesStay DEF RunNlu, IInv

\* What the linker makes of a parsed question with a true cache.
LEMMA LinkedTrue ==
  ASSUME IInv, NEW c, ColdContext(c)
  PROVE  ColdLinked(Link(linkerCache, c))
<1> DEFINE l == Link(linkerCache, c)
<1>1. l = Link(<<>>, c)
  BY LinkIsFresh DEF IInv, LinkerCacheTrue
<1>2. l.context = c
  BY LinkKeepsContext
<1> HIDE DEF l
<1>3. ColdLinked(l)
  BY <1>1, <1>2 DEF ColdLinked
<1> QED BY <1>3 DEF l

LEMMA LinkingKeepsIInv ==
  ASSUME IInv, NEW r \in Requests, SchemaLinking(r)
  PROVE  IInv'
<1> DEFINE l == Link(linkerCache, req[r].context)
<1>1. ColdLinked(l)
  BY LinkedTrue DEF SchemaLinking, IInv, RequestTrue
<1>2. RequestTrue([stage |-> "linked", linked |-> l])
  <2> HIDE DEF l
  <2> QED BY <1>1 DEF RequestTrue
<1>3. DOMAIN req' = Requests /\ \A s \in Requests : RequestTrue(req'[s])
  BY <1>2, OneMoves DEF SchemaLinking
<1>4. LinkerCacheTrue'
  BY CacheAfterTrue DEF SchemaLinking, IInv, LinkerCacheTrue
<1> QED BY <1>3, <1>4, CachesStay DEF SchemaLinking, IInv

\* What retrieval makes of a linked question with a true cache.
LEMMA BundleTrue ==
  ASSUME IInv, NEW l, ColdLinked(l)
  PROVE  LET b == Retrieve(featureCache, l)
         IN  b.linked = l /\ ColdLinked(b.linked) /\ b = Retrieve(<<>>, b.linked)
<1> DEFINE b == Retrieve(featureCache, l)
<1>1. b = Retrieve(<<>>, l)
  BY RetrieveIsFresh DEF IInv, FeatureCacheTrue
<1>2. b.linked = l
  BY DEF Retrieve
<1> HIDE DEF b
<1>3. b.linked = l /\ ColdLinked(b.linked) /\ b = Retrieve(<<>>, b.linked)
  BY <1>1, <1>2
<1> QED BY <1>3 DEF b

LEMMA FeaturesStayTrue ==
  ASSUME IInv, featureCache' = FeaturesAfter(featureCache)
  PROVE  FeatureCacheTrue'
<1>1. \A e \in ToSet(Library) : FeaturesAfter(featureCache)[e.id] = ExampleFeatures(e)
  BY FeaturesAfterTrue DEF IInv, FeatureCacheTrue
<1> QED BY <1>1 DEF FeatureCacheTrue

LEMMA RetrievalKeepsIInv ==
  ASSUME IInv, NEW r \in Requests, RunRetrieval(r)
  PROVE  IInv'
<1> DEFINE b == Retrieve(featureCache, req[r].linked)
<1>1. ColdLinked(b.linked) /\ b = Retrieve(<<>>, b.linked)
  BY BundleTrue DEF RunRetrieval, IInv, RequestTrue
<1>2. RequestTrue([stage |-> "retrieved", bundle |-> b])
  <2> HIDE DEF b
  <2> QED BY <1>1 DEF RequestTrue
<1>3. DOMAIN req' = Requests /\ \A s \in Requests : RequestTrue(req'[s])
  BY <1>2, OneMoves DEF RunRetrieval
<1> QED BY <1>3, CachesStay, FeaturesStayTrue DEF RunRetrieval, IInv

\* The prompt cache is keyed by all a prompt is built from.
LEMMA CompileIsFresh ==
  ASSUME IInv, NEW b, b = Retrieve(<<>>, b.linked)
  PROVE  Compile(promptCache, b) = Prompt(b)
<1>1. b = [linked |-> BundleHash(b)[1], examples |-> BundleHash(b)[2]]
  BY DEF Retrieve, BundleHash
<1> QED BY <1>1 DEF Compile, IInv, PromptCacheTrue

LEMMA PromptsStayTrue ==
  ASSUME IInv, NEW b, b = Retrieve(<<>>, b.linked), promptCache' = PromptsAfter(promptCache, b)
  PROVE  PromptCacheTrue'
<1>1. b = [linked |-> BundleHash(b)[1], examples |-> BundleHash(b)[2]]
  BY DEF Retrieve, BundleHash
<1>2. CASE promptCache' = promptCache
  BY <1>2, CachesStay
<1>3. CASE promptCache' = [h \in DOMAIN promptCache \cup {BundleHash(b)} |->
                             IF h \in DOMAIN promptCache THEN promptCache[h] ELSE Prompt(b)]
  BY <1>1, <1>3 DEF IInv, PromptCacheTrue
<1> QED BY <1>2, <1>3 DEF PromptsAfter

LEMMA CompilationKeepsIInv ==
  ASSUME IInv, NEW r \in Requests, PromptCompilation(r)
  PROVE  IInv'
<1> DEFINE b == req[r].bundle
           p == Compile(promptCache, b)
<1>1. ColdLinked(b.linked) /\ b = Retrieve(<<>>, b.linked)
  BY DEF PromptCompilation, IInv, RequestTrue
<1>2. p = Prompt(b)
  BY <1>1, CompileIsFresh
<1>3. RequestTrue([stage |-> "compiled", bundle |-> b, prompt |-> p])
  <2> HIDE DEF b, p
  <2> QED BY <1>1, <1>2 DEF RequestTrue
<1>4. DOMAIN req' = Requests /\ \A s \in Requests : RequestTrue(req'[s])
  BY <1>3, OneMoves DEF PromptCompilation
<1>5. PromptCacheTrue'
  BY <1>1, PromptsStayTrue DEF PromptCompilation
<1> QED BY <1>4, <1>5, CachesStay DEF PromptCompilation, IInv

LEMMA RepairKeepsIInv ==
  ASSUME IInv, NEW r \in Requests, NEW question \in Questions, RepairSql(r, question)
  PROVE  IInv'
<1>1. CASE ParseFails(question)
  <2>1. RequestTrue([stage |-> "failed"])
    BY DEF RequestTrue
  <2>2. DOMAIN req' = Requests /\ \A s \in Requests : RequestTrue(req'[s])
    BY <1>1, <2>1, OneMoves DEF RepairSql
  <2> QED BY <1>1, <2>2, CachesStay DEF RepairSql, IInv
<1>2. CASE ~ParseFails(question)
  <2> DEFINE c == Parse(question)
             b == Retrieve(featureCache, Link(linkerCache, c))
  <2>1. ColdContext(c)
    BY ParseKeepsQuestion DEF ColdContext
  <2>2. ColdLinked(b.linked) /\ b = Retrieve(<<>>, b.linked)
    BY <2>1, LinkedTrue, BundleTrue
  <2>3. RequestTrue([stage |-> "bundled", bundle |-> b])
    <3> HIDE DEF b
    <3> QED BY <2>2 DEF RequestTrue
  <2>4. DOMAIN req' = Requests /\ \A s \in Requests : RequestTrue(req'[s])
    BY <1>2, <2>3, OneMoves DEF RepairSql, BundleOf
  <2>5. LinkerCacheTrue'
    BY <1>2, CacheAfterTrue DEF RepairSql, BundleOf, IInv, LinkerCacheTrue
  <2>6. FeatureCacheTrue' /\ PromptCacheTrue'
    BY <1>2, FeaturesStayTrue, CachesStay DEF RepairSql, BundleOf
  <2> QED BY <2>4, <2>5, <2>6 DEF IInv
<1> QED BY <1>1, <1>2

LEMMA NextKeepsIInv == IInv /\ [Next]_vars => IInv'
<1> SUFFICES ASSUME IInv, [Next]_vars PROVE IInv'
  OBVIOUS
<1>1. CASE UNCHANGED vars
  BY <1>1 DEF vars, IInv, LinkerCacheTrue, FeatureCacheTrue, PromptCacheTrue
<1>2. CASE Next
  BY <1>2, AskKeepsIInv, RepairKeepsIInv, NluKeepsIInv, LinkingKeepsIInv, RetrievalKeepsIInv,
     CompilationKeepsIInv DEF Next
<1> QED BY <1>1, <1>2

\* The caches are true and every request is where a fresh process would be.
THEOREM Invariance == Spec => []IInv
  BY InitIInv, NextKeepsIInv, PTL DEF Spec

\* Whatever was asked before or meanwhile, a question gets the bundle and the
\* prompt a fresh process would give it: the linker's, the retrieval's and the
\* prompt compiler's caches, shared by all requests of a process, never show
\* (schema_linker.candidates, retrieval.engine, prompt_compiler.compiler).
THEOREM CachesNeverShow == Spec => []HistoryIndependent
<1>1. IInv => HistoryIndependent
  <2> SUFFICES ASSUME IInv PROVE HistoryIndependent
    OBVIOUS
  <2>1. ASSUME NEW r \in Bundled
        PROVE  req[r].bundle = ColdBundle(req[r].bundle.linked.context.question)
    <3>1. ColdLinked(req[r].bundle.linked) /\ req[r].bundle = Retrieve(<<>>, req[r].bundle.linked)
      BY DEF Bundled, IInv, RequestTrue
    <3> QED BY <3>1 DEF ColdLinked, ColdContext, ColdBundle
  <2>2. ASSUME NEW r \in Compiled PROVE req[r].prompt = Prompt(req[r].bundle)
    BY DEF Compiled, IInv, RequestTrue
  <2> QED BY <2>1, <2>2 DEF HistoryIndependent
<1> QED BY Invariance, <1>1, PTL

----------------------------------------------------------------------------
(* Recursion and lists.                                                    *)

\* A set of naturals has a least element.
LEMMA Least ==
  ASSUME NEW T, T \subseteq Nat, T # {}
  PROVE  \E x \in T : \A y \in T : x <= y
<1> DEFINE R == {p \in Nat \X Nat : p[1] < p[2]}
<1>1. IsWellFoundedOn(R, Nat)
  BY NatLessThanWellFounded DEF OpToRel
<1>2. PICK x \in T : \A y \in T : ~ (<<y, x>> \in R)
  <2> HIDE DEF R
  <2> QED BY <1>1, WFMin
<1>3. ASSUME NEW y \in T PROVE x <= y
  <2>1. x \in Nat /\ y \in Nat /\ ~ (<<y, x>> \in R)
    BY <1>2
  <2>2. ~ (y < x)
    BY <2>1
  <2> QED BY <2>1, <2>2
<1> QED BY <1>3

\* Induction up to n, on sets.
LEMMA StepByStep ==
  ASSUME NEW n \in Nat, NEW S, 0 \in S, \A k \in 1..n : k - 1 \in S => k \in S
  PROVE  \A k \in 0..n : k \in S
<1> DEFINE T == (0..n) \ S
<1>1. SUFFICES ASSUME T # {} PROVE FALSE
  OBVIOUS
<1>0. T \subseteq Nat
  OBVIOUS
<1>2. PICK x \in T : \A y \in T : x <= y
  <2> HIDE DEF T
  <2> QED BY <1>0, <1>1, Least
<1>3. x # 0 /\ x \in 1..n /\ x - 1 \in 0..n /\ ~ (x <= x - 1)
  OBVIOUS
<1>4. x - 1 \in S
  BY <1>2, <1>3
<1> QED BY <1>3, <1>4

\* g is the run of length n from a, with step F[i] before g[i].
IsStep(F, A, n) == F \in [1..n -> [A -> A]]
IsRun(g, F, A, n, a) ==
  g \in [0..n -> A] /\ g[0] = a /\ \A i \in 1..n : g[i] = F[i][g[i - 1]]

\* There is such a run: what a recursive function over 0..n stands for.
LEMMA Recursion ==
  ASSUME NEW n \in Nat, NEW A, NEW a \in A, NEW F, IsStep(F, A, n)
  PROVE  \E g : IsRun(g, F, A, n, a)
<1> USE DEF IsStep
<1> DEFINE Upto(g, m) == g[0] = a /\ \A i \in 1..n : i <= m => g[i] = F[i][g[i - 1]]
           S == {m \in 0..n : \E g \in [0..n -> A] : Upto(g, m)}
<1>1. 0 \in S
  <2>1. [k \in 0..n |-> a] \in [0..n -> A] /\ Upto([k \in 0..n |-> a], 0)
    OBVIOUS
  <2> QED BY <2>1
<1>2. ASSUME NEW k \in 1..n, k - 1 \in S PROVE k \in S
  <2>1. PICK g \in [0..n -> A] : Upto(g, k - 1)
    BY <1>2
  <2>2. k - 1 \in 0..n /\ k \in 0..n /\ g[k - 1] \in A /\ F[k][g[k - 1]] \in A
    OBVIOUS
  <2> DEFINE h == [i \in 0..n |-> IF i = k THEN F[k][g[k - 1]] ELSE g[i]]
  <2>3. h \in [0..n -> A]
    BY <2>2
  <2>4. h[0] = a
    BY <2>1
  <2>5. ASSUME NEW i \in 1..n, i <= k PROVE h[i] = F[i][h[i - 1]]
    <3>1. i \in 0..n /\ i - 1 \in 0..n /\ i - 1 # k /\ h[i - 1] = g[i - 1]
      BY <2>5
    <3>2. CASE i = k
      BY <3>1, <3>2
    <3>3. CASE i # k
      BY <2>1, <2>5, <3>1, <3>3
    <3> QED BY <3>2, <3>3
  <2> HIDE DEF h
  <2>6. Upto(h, k)
    BY <2>4, <2>5
  <2> QED BY <2>2, <2>3, <2>6
<1>3. n \in S
  <2> HIDE DEF S
  <2>1. \A k \in 0..n : k \in S
    BY <1>1, <1>2, StepByStep
  <2> QED BY <2>1
<1>4. PICK g \in [0..n -> A] : Upto(g, n)
  BY <1>3
<1> QED BY <1>4 DEF IsRun

\* InOrder, unfolded.
InOrderStep(S, n, up) ==
  [k \in 0..n |-> IF k = 0 THEN <<>> ELSE IF k \in S THEN Append(up[k - 1], k) ELSE up[k - 1]]

LEMMA InOrderUnfolds ==
  ASSUME NEW S, NEW n \in Nat
  PROVE  \E up \in [0..n -> Seq(Nat)] : up = InOrderStep(S, n, up) /\ InOrder(S, n) = up[n]
<1> DEFINE F == [k \in 1..n |-> [s \in Seq(Nat) |-> IF k \in S THEN Append(s, k) ELSE s]]
           up == CHOOSE u : u = InOrderStep(S, n, u)
<1>1. InOrder(S, n) = up[n]
  BY DEF InOrder, InOrderStep
<1>2. F \in [1..n -> [Seq(Nat) -> Seq(Nat)]] /\ <<>> \in Seq(Nat)
  OBVIOUS
<1>3. PICK g \in [0..n -> Seq(Nat)] : g[0] = <<>> /\ \A i \in 1..n : g[i] = F[i][g[i - 1]]
  <2> DEFINE A == Seq(Nat)
             a == <<>>
  <2>1. a \in A /\ IsStep(F, A, n)
    BY <1>2 DEF IsStep
  <2>2. \E g : IsRun(g, F, A, n, a)
    <3> HIDE DEF F, A, a
    <3> QED BY <2>1, Recursion
  <2> QED BY <2>2 DEF IsRun
<1>4. ASSUME NEW i \in 1..n PROVE g[i] = IF i \in S THEN Append(g[i - 1], i) ELSE g[i - 1]
  <2>1. i - 1 \in 0..n /\ g[i - 1] \in Seq(Nat)
    OBVIOUS
  <2> QED BY <1>3, <2>1
<1>5. ASSUME NEW k \in 0..n PROVE g[k] = InOrderStep(S, n, g)[k]
  <2>1. CASE k = 0
    BY <1>3, <2>1 DEF InOrderStep
  <2>2. CASE k # 0
    <3>1. k \in 1..n
      BY <2>2
    <3> QED BY <1>4, <2>2, <3>1 DEF InOrderStep
  <2> QED BY <2>1, <2>2
<1>6. g = InOrderStep(S, n, g)
  BY <1>5 DEF InOrderStep
<1>7. up = InOrderStep(S, n, up)
  BY <1>6
<1> HIDE DEF up
<1> DEFINE T == {k \in 0..n : up[k] \in Seq(Nat)}
<1>8. 0 \in T
  BY <1>7 DEF InOrderStep
<1>9. ASSUME NEW k \in 1..n, k - 1 \in T PROVE k \in T
  <2>1. k \in 0..n /\ k # 0 /\ k \in Nat
    OBVIOUS
  <2>2. up[k] = IF k \in S THEN Append(up[k - 1], k) ELSE up[k - 1]
    BY <1>7, <2>1 DEF InOrderStep
  <2>3. up[k - 1] \in Seq(Nat)
    BY <1>9
  <2>4. up[k] \in Seq(Nat)
    BY <2>1, <2>2, <2>3
  <2> QED BY <2>1, <2>4
<1>10. \A k \in 0..n : up[k] \in Seq(Nat)
  <2>1. \A k \in 0..n : k \in T
    <3> HIDE DEF T
    <3> QED BY <1>8, <1>9, StepByStep
  <2> QED BY <2>1
<1>11. up \in [0..n -> Seq(Nat)]
  BY <1>7, <1>10 DEF InOrderStep
<1> QED BY <1>1, <1>7, <1>11

\* A list of all the numbers of S up to n, in increasing order.
ListsInOrder(o, S, n) ==
  /\ o \in Seq(Nat)
  /\ \A i \in 1..Len(o) : o[i] \in S /\ o[i] \in 1..n
  /\ \A i, j \in 1..Len(o) : i < j => o[i] < o[j]
  /\ \A k \in 1..n : k \in S => \E i \in 1..Len(o) : o[i] = k

LEMMA InOrderLists ==
  ASSUME NEW S, NEW n \in Nat
  PROVE  ListsInOrder(InOrder(S, n), S, n)
<1>1. PICK up \in [0..n -> Seq(Nat)] : up = InOrderStep(S, n, up) /\ InOrder(S, n) = up[n]
  BY InOrderUnfolds
<1> DEFINE T == {k \in 0..n : ListsInOrder(up[k], S, k)}
<1>2. 0 \in T
  <2>1. up[0] = <<>>
    BY <1>1 DEF InOrderStep
  <2> QED BY <2>1 DEF ListsInOrder
<1>3. ASSUME NEW k \in 1..n, k - 1 \in T PROVE k \in T
  <2>0. k \in 0..n /\ k - 1 \in 0..n /\ k # 0 /\ k \in Nat
    OBVIOUS
  <2>1. up[k] = IF k \in S THEN Append(up[k - 1], k) ELSE up[k - 1]
    BY <1>1, <2>0 DEF InOrderStep
  <2> DEFINE p == up[k - 1]
  <2>2. ListsInOrder(p, S, k - 1)
    BY <1>3
  <2> HIDE DEF p
  <2>3. p \in Seq(Nat) /\ \A i \in 1..Len(p) : p[i] \in S /\ p[i] \in 1..k /\ p[i] < k
    BY <2>2, SMTT(30) DEF ListsInOrder
  <2>4. \A i, j \in 1..Len(p) : i < j => p[i] < p[j]
    BY <2>2 DEF ListsInOrder
  <2>5. \A m \in 1..(k - 1) : m \in S => \E i \in 1..Len(p) : p[i] = m
    BY <2>2 DEF ListsInOrder
  <2>6. CASE k \notin S
    <3>1. ASSUME NEW m \in 1..k, m \in S PROVE \E i \in 1..Len(p) : p[i] = m
      <4>1. m \in 1..(k - 1)
        BY <2>6, <3>1
      <4> QED BY <2>5, <3>1, <4>1
    <3>2. ListsInOrder(p, S, k)
      BY <2>3, <2>4, <3>1 DEF ListsInOrder
    <3> QED BY <2>0, <2>1, <2>6, <3>2 DEF p
  <2>7. CASE k \in S
    <3> DEFINE o == Append(p, k)
    <3>1. o \in Seq(Nat) /\ Len(o) = Len(p) + 1 /\ o[Len(p) + 1] = k /\ Len(p) \in Nat
          /\ \A i \in 1..Len(p) : o[i] = p[i]
      BY <2>0, <2>3
    <3> HIDE DEF o
    <3>6. \A i \in 1..Len(o) : i = Len(p) + 1 \/ i \in 1..Len(p)
      BY <3>1
    <3>2. \A i \in 1..Len(o) : o[i] \in S /\ o[i] \in 1..k
      <4> TAKE i \in 1..Len(o)
      <4>1. CASE i \in 1..Len(p)
        BY <2>3, <3>1, <4>1
      <4>2. CASE i = Len(p) + 1
        BY <2>0, <2>7, <3>1, <4>2
      <4> QED BY <3>6, <4>1, <4>2
    <3>3. ASSUME NEW i \in 1..Len(o), NEW j \in 1..Len(o), i < j PROVE o[i] < o[j]
      <4>1. i \in 1..Len(p)
        BY <3>1, <3>3, <3>6
      <4>2. CASE j \in 1..Len(p)
        BY <2>4, <3>1, <3>3, <4>1, <4>2
      <4>3. CASE j = Len(p) + 1
        BY <2>3, <3>1, <4>1, <4>3
      <4> QED BY <3>6, <4>2, <4>3
    <3>4. ASSUME NEW m \in 1..k, m \in S PROVE \E i \in 1..Len(o) : o[i] = m
      <4>1. CASE m = k
        <5>1. Len(p) + 1 \in 1..Len(o)
          BY <3>1
        <5> QED BY <3>1, <4>1, <5>1
      <4>2. CASE m # k
        <5>1. m \in 1..(k - 1)
          BY <4>2
        <5>2. PICK i \in 1..Len(p) : p[i] = m
          BY <2>5, <3>4, <5>1
        <5>3. i \in 1..Len(o) /\ o[i] = m
          BY <3>1, <5>2
        <5> QED BY <5>3
      <4> QED BY <4>1, <4>2
    <3>5. ListsInOrder(o, S, k)
      BY <3>1, <3>2, <3>3, <3>4 DEF ListsInOrder
    <3> QED BY <2>0, <2>1, <2>7, <3>5 DEF o, p
  <2> QED BY <2>6, <2>7
<1>4. n \in T
  <2> HIDE DEF T
  <2>1. \A k \in 0..n : k \in T
    BY <1>2, <1>3, StepByStep
  <2> QED BY <2>1
<1> QED BY <1>1, <1>4

\* What Distinct(e) is to e: nothing is lost, and an element comes no earlier
\* than whatever stood before it.
Thins(d, e) ==
  /\ \A k \in 1..Len(d) : \E i \in 1..Len(e) :
        d[k] = e[i] /\ \A j \in 1..(i - 1) : \E l \in 1..(k - 1) : d[l] = e[j]
  /\ \A i \in 1..Len(e) : \E k \in 1..Len(d) : d[k] = e[i]

LEMMA DistinctThins ==
  ASSUME NEW T, NEW e \in Seq(T)
  PROVE  Distinct(e) \in Seq(T) /\ Thins(Distinct(e), e)
<1> DEFINE F == {i \in DOMAIN e : \A j \in 1..(i - 1) : e[j] # e[i]}
           o == InOrder(F, Len(e))
           d == Distinct(e)
<1>1. Len(e) \in Nat /\ DOMAIN e = 1..Len(e) /\ \A i \in 1..Len(e) : e[i] \in T
  OBVIOUS
<1>2. ListsInOrder(o, F, Len(e))
  BY <1>1, InOrderLists
<1>3. d = [k \in DOMAIN o |-> e[o[k]]]
  BY DEF Distinct
<1> HIDE DEF o, d
<1>4. o \in Seq(Nat) /\ Len(o) \in Nat /\ DOMAIN o = 1..Len(o)
      /\ \A k \in 1..Len(o) : o[k] \in F /\ o[k] \in 1..Len(e)
  BY <1>2 DEF ListsInOrder
<1>5. d \in Seq(T) /\ Len(d) = Len(o) /\ \A k \in 1..Len(o) : d[k] = e[o[k]]
  BY <1>1, <1>3, <1>4
<1>6. ASSUME NEW j \in 1..Len(e)
      PROVE  \E l \in 1..Len(o) : o[l] <= j /\ e[o[l]] = e[j]
  <2> DEFINE P == {i \in 1..Len(e) : e[i] = e[j]}
  <2>1. PICK m \in P : \A y \in P : m <= y
    <3>1. P \subseteq Nat /\ P # {}
      OBVIOUS
    <3> HIDE DEF P
    <3> QED BY <3>1, Least
  <2>2. m \in 1..Len(e) /\ m \in Nat /\ e[m] = e[j] /\ m <= j
    BY <1>1, <2>1
  <2>3. ASSUME NEW i \in 1..(m - 1) PROVE e[i] # e[m]
    <3>1. i \in 1..Len(e) /\ ~ (m <= i)
      BY <1>1, <2>2
    <3> QED BY <2>1, <2>2, <3>1
  <2>4. m \in F
    BY <1>1, <2>2, <2>3
  <2>5. PICK l \in 1..Len(o) : o[l] = m
    <3> HIDE DEF F, P
    <3> QED BY <1>2, <2>2, <2>4 DEF ListsInOrder
  <2> QED BY <2>2, <2>5
<1>7. ASSUME NEW i \in 1..Len(e) PROVE \E k \in 1..Len(d) : d[k] = e[i]
  BY <1>5, <1>6
<1>8. ASSUME NEW k \in 1..Len(d)
      PROVE  \E i \in 1..Len(e) :
                d[k] = e[i] /\ \A j \in 1..(i - 1) : \E l \in 1..(k - 1) : d[l] = e[j]
  <2>1. k \in 1..Len(o) /\ o[k] \in 1..Len(e) /\ d[k] = e[o[k]]
    BY <1>4, <1>5
  <2>2. ASSUME NEW j \in 1..(o[k] - 1) PROVE \E l \in 1..(k - 1) : d[l] = e[j]
    <3>1. j \in 1..Len(e) /\ j < o[k]
      BY <1>1, <2>1
    <3>2. PICK l \in 1..Len(o) : o[l] <= j /\ e[o[l]] = e[j]
      BY <1>6, <3>1
    <3>3. o[l] \in Nat /\ o[k] \in Nat /\ j \in Nat /\ l \in Nat /\ k \in Nat /\ 1 <= l
      BY <1>4, <2>1, SMTT(30)
    <3>4. o[l] < o[k]
      BY <3>1, <3>2, <3>3
    <3>5. ~ (k < l) /\ k # l
      <4>1. k < l => o[k] < o[l]
        BY <1>2, <2>1 DEF ListsInOrder
      <4> QED BY <3>3, <3>4, <4>1
    <3>6. l \in 1..(k - 1)
      BY <3>3, <3>5
    <3> QED BY <1>5, <3>2, <3>6
  <2> QED BY <2>1, <2>2
<1>9. Thins(d, e)
  BY <1>7, <1>8 DEF Thins
<1> QED BY <1>5, <1>9 DEF d

----------------------------------------------------------------------------
(* The schema: fourteen tables that the foreign keys connect.              *)

TableNames == {"customers", "customer_addresses", "suppliers", "product_categories", "products",
               "warehouses", "inventory", "promotions", "orders", "order_items", "payments",
               "shipments", "product_reviews", "returns"}

LEMMA TablesAre == ExtractTables = TableNames
BY DEF ExtractTables, BaseMetadata, TableNames

LEMMA KeysAre ==
  /\ BaseMetadata["customers"].fks = {}
  /\ BaseMetadata["customer_addresses"].fks = {FK("customer_id", "customers", "CASCADE")}
  /\ BaseMetadata["suppliers"].fks = {}
  /\ BaseMetadata["product_categories"].fks = {FK("parent_category_id", "product_categories", "RESTRICT")}
  /\ BaseMetadata["products"].fks = {FK("category_id", "product_categories", "RESTRICT"),
                                     FK("supplier_id", "suppliers", "RESTRICT")}
  /\ BaseMetadata["warehouses"].fks = {}
  /\ BaseMetadata["inventory"].fks = {FK("product_id", "products", "RESTRICT"),
                                      FK("warehouse_id", "warehouses", "RESTRICT")}
  /\ BaseMetadata["promotions"].fks = {}
  /\ BaseMetadata["orders"].fks = {FK("customer_id", "customers", "RESTRICT"),
                                   FK("promotion_id", "promotions", "RESTRICT")}
  /\ BaseMetadata["order_items"].fks = {FK("order_id", "orders", "RESTRICT"),
                                        FK("product_id", "products", "RESTRICT")}
  /\ BaseMetadata["payments"].fks = {FK("order_id", "orders", "RESTRICT")}
  /\ BaseMetadata["shipments"].fks = {FK("order_id", "orders", "RESTRICT"),
                                      FK("warehouse_id", "warehouses", "RESTRICT")}
  /\ BaseMetadata["product_reviews"].fks = {FK("product_id", "products", "RESTRICT"),
                                            FK("customer_id", "customers", "RESTRICT"),
                                            FK("order_item_id", "order_items", "SET NULL")}
  /\ BaseMetadata["returns"].fks = {FK("order_item_id", "order_items", "RESTRICT")}
BY DEF BaseMetadata, Table, Customer, CustomerAddress, Supplier, ProductCategory, Product, Warehouse,
       Inventory, Promotion, Order, OrderItem, Payment, Shipment, ProductReview, Return

LEMMA EdgesAre ==
  ASSUME NEW t \in ExtractTables, NEW k \in BaseMetadata[t].fks
  PROVE  /\ [source |-> t, target |-> k.target, via |-> k.column] \in ExtractRelationships
         /\ [source |-> k.target, target |-> t, via |-> k.column] \in ExtractRelationships
BY DEF ExtractRelationships

\* A foreign key refers to a mapped table.
LEMMA KeysLeadToTables ==
  ASSUME NEW t \in ExtractTables, NEW k \in BaseMetadata[t].fks
  PROVE  k.target \in ExtractTables
<1>1. t \in TableNames
  BY TablesAre
<1>2. \A u \in TableNames : \A j \in BaseMetadata[u].fks : j.target \in TableNames
  <2>0. /\ \A c, u, x : FK(c, u, x).target = u
        /\ "customers" \in TableNames
        /\ "product_categories" \in TableNames
        /\ "suppliers" \in TableNames
        /\ "products" \in TableNames
        /\ "warehouses" \in TableNames
        /\ "promotions" \in TableNames
        /\ "orders" \in TableNames
        /\ "order_items" \in TableNames
    BY DEF FK, TableNames
  <2>1. \A j \in BaseMetadata["customers"].fks : j.target \in TableNames
    <3>1. \A j \in {} : j.target \in TableNames
      BY <2>0 DEF FK
    <3> QED BY <3>1, KeysAre, Zenon
  <2>2. \A j \in BaseMetadata["customer_addresses"].fks : j.target \in TableNames
    <3>1. \A j \in {FK("customer_id", "customers", "CASCADE")} : j.target \in TableNames
      BY <2>0 DEF FK
    <3> QED BY <3>1, KeysAre, Zenon
  <2>3. \A j \in BaseMetadata["suppliers"].fks : j.target \in TableNames
    <3>1. \A j \in {} : j.target \in TableNames
      BY <2>0 DEF FK
    <3> QED BY <3>1, KeysAre, Zenon
  <2>4. \A j \in BaseMetadata["product_categories"].fks : j.target \in TableNames
    <3>1. \A j \in {FK("parent_category_id", "product_categories", "RESTRICT")} : j.target \in TableNames
      BY <2>0 DEF FK
    <3> QED BY <3>1, KeysAre, Zenon
  <2>5. \A j \in BaseMetadata["products"].fks : j.target \in TableNames
    <3>1. \A j \in {FK("category_id", "product_categories", "RESTRICT"),
                    FK("supplier_id", "suppliers", "RESTRICT")} : j.target \in TableNames
      BY <2>0 DEF FK
    <3> QED BY <3>1, KeysAre, Zenon
  <2>6. \A j \in BaseMetadata["warehouses"].fks : j.target \in TableNames
    <3>1. \A j \in {} : j.target \in TableNames
      BY <2>0 DEF FK
    <3> QED BY <3>1, KeysAre, Zenon
  <2>7. \A j \in BaseMetadata["inventory"].fks : j.target \in TableNames
    <3>1. \A j \in {FK("product_id", "products", "RESTRICT"),
                    FK("warehouse_id", "warehouses", "RESTRICT")} : j.target \in TableNames
      BY <2>0 DEF FK
    <3> QED BY <3>1, KeysAre, Zenon
  <2>8. \A j \in BaseMetadata["promotions"].fks : j.target \in TableNames
    <3>1. \A j \in {} : j.target \in TableNames
      BY <2>0 DEF FK
    <3> QED BY <3>1, KeysAre, Zenon
  <2>9. \A j \in BaseMetadata["orders"].fks : j.target \in TableNames
    <3>1. \A j \in {FK("customer_id", "customers", "RESTRICT"),
                    FK("promotion_id", "promotions", "RESTRICT")} : j.target \in TableNames
      BY <2>0 DEF FK
    <3> QED BY <3>1, KeysAre, Zenon
  <2>10. \A j \in BaseMetadata["order_items"].fks : j.target \in TableNames
    <3>1. \A j \in {FK("order_id", "orders", "RESTRICT"),
                    FK("product_id", "products", "RESTRICT")} : j.target \in TableNames
      BY <2>0 DEF FK
    <3> QED BY <3>1, KeysAre, Zenon
  <2>11. \A j \in BaseMetadata["payments"].fks : j.target \in TableNames
    <3>1. \A j \in {FK("order_id", "orders", "RESTRICT")} : j.target \in TableNames
      BY <2>0 DEF FK
    <3> QED BY <3>1, KeysAre, Zenon
  <2>12. \A j \in BaseMetadata["shipments"].fks : j.target \in TableNames
    <3>1. \A j \in {FK("order_id", "orders", "RESTRICT"),
                    FK("warehouse_id", "warehouses", "RESTRICT")} : j.target \in TableNames
      BY <2>0 DEF FK
    <3> QED BY <3>1, KeysAre, Zenon
  <2>13. \A j \in BaseMetadata["product_reviews"].fks : j.target \in TableNames
    <3>1. \A j \in {FK("product_id", "products", "RESTRICT"),
                    FK("customer_id", "customers", "RESTRICT"),
                    FK("order_item_id", "order_items", "SET NULL")} : j.target \in TableNames
      <4>1. \A x : \A j \in {FK("product_id", "products", "RESTRICT"),
                             FK("customer_id", "customers", "RESTRICT"),
                             FK("order_item_id", "order_items", x)} : j.target \in TableNames
        BY <2>0 DEF FK
      <4> QED BY <4>1, Zenon
    <3> QED BY <3>1, KeysAre, Zenon
  <2>14. \A j \in BaseMetadata["returns"].fks : j.target \in TableNames
    <3>1. \A j \in {FK("order_item_id", "order_items", "RESTRICT")} : j.target \in TableNames
      BY <2>0 DEF FK
    <3> QED BY <3>1, KeysAre, Zenon
  <2> QED BY <2>1, <2>2, <2>3, <2>4, <2>5, <2>6, <2>7, <2>8, <2>9, <2>10, <2>11,
            <2>12, <2>13, <2>14 DEF TableNames
<1> QED BY <1>1, <1>2, TablesAre

LEMMA EdgesLeadToTables ==
  ASSUME NEW r \in ExtractRelationships
  PROVE  r.source \in ExtractTables /\ r.target \in ExtractTables
BY KeysLeadToTables DEF ExtractRelationships

LEMMA FiniteTables == IsFiniteSet(ExtractTables)
<1> DEFINE f == <<"customers", "customer_addresses", "suppliers", "product_categories", "products",
                  "warehouses", "inventory", "promotions", "orders", "order_items", "payments",
                  "shipments", "product_reviews", "returns">>
<1>1. f \in [1..14 -> TableNames] /\ \A t \in TableNames : \E i \in 1..14 : f[i] = t
  <2>1. DOMAIN f = 1..14 /\ \A i \in 1..14 : f[i] \in TableNames
    BY DEF TableNames
  <2>2. \A t \in TableNames : \E i \in 1..14 : f[i] = t
    BY DEF TableNames
  <2> QED BY <2>1, <2>2
<1>2. f \in Surjection(1..14, TableNames)
  <2> HIDE DEF f
  <2> QED BY <1>1 DEF Surjection
<1>3. IsFiniteSet(1..14)
  <2>1. 1 \in Int /\ 14 \in Int
    OBVIOUS
  <2> QED BY <2>1, FS_Interval
<1> HIDE DEF f
<1>4. IsFiniteSet(TableNames)
  BY <1>2, <1>3, FS_Surjection
<1> QED BY <1>4, TablesAre

\* The foreign keys connect the tables: no set of some but not all of them is
\* closed under the edges.
LEMMA SchemaConnected ==
  ASSUME NEW D \in SUBSET ExtractTables, D # {}, D # ExtractTables
  PROVE  \E r \in ExtractRelationships : r.source \in D /\ r.target \notin D
<1> SUFFICES ASSUME \A r \in ExtractRelationships : r.source \in D => r.target \in D PROVE FALSE
  OBVIOUS
<1>1. ASSUME NEW t \in ExtractTables, NEW k \in BaseMetadata[t].fks PROVE t \in D <=> k.target \in D
  BY EdgesAre
<1>2. ASSUME NEW t \in TableNames, NEW c, NEW u, NEW x, FK(c, u, x) \in BaseMetadata[t].fks
      PROVE  t \in D <=> u \in D
  <2>1. FK(c, u, x).target = u
    BY DEF FK
  <2> QED BY <1>1, <1>2, <2>1, TablesAre
<1>3. TableNames \subseteq ExtractTables /\ D \subseteq TableNames
  BY TablesAre
<1>4. "customer_addresses" \in D <=> "customers" \in D
  <2>1. /\ "customer_addresses" \in TableNames
        /\ FK("customer_id", "customers", "CASCADE") \in BaseMetadata["customer_addresses"].fks
    BY KeysAre DEF TableNames
  <2> QED BY <1>2, <2>1
<1>5. "orders" \in D <=> "customers" \in D
  <2>1. /\ "orders" \in TableNames
        /\ FK("customer_id", "customers", "RESTRICT") \in BaseMetadata["orders"].fks
    BY KeysAre DEF TableNames
  <2> QED BY <1>2, <2>1
<1>6. "orders" \in D <=> "promotions" \in D
  <2>1. /\ "orders" \in TableNames
        /\ FK("promotion_id", "promotions", "RESTRICT") \in BaseMetadata["orders"].fks
    BY KeysAre DEF TableNames
  <2> QED BY <1>2, <2>1
<1>7. "order_items" \in D <=> "orders" \in D
  <2>1. /\ "order_items" \in TableNames
        /\ FK("order_id", "orders", "RESTRICT") \in BaseMetadata["order_items"].fks
    BY KeysAre DEF TableNames
  <2> QED BY <1>2, <2>1
<1>8. "order_items" \in D <=> "products" \in D
  <2>1. /\ "order_items" \in TableNames
        /\ FK("product_id", "products", "RESTRICT") \in BaseMetadata["order_items"].fks
    BY KeysAre DEF TableNames
  <2> QED BY <1>2, <2>1
<1>9. "products" \in D <=> "product_categories" \in D
  <2>1. /\ "products" \in TableNames
        /\ FK("category_id", "product_categories", "RESTRICT") \in BaseMetadata["products"].fks
    BY KeysAre DEF TableNames
  <2> QED BY <1>2, <2>1
<1>10. "products" \in D <=> "suppliers" \in D
  <2>1. /\ "products" \in TableNames
        /\ FK("supplier_id", "suppliers", "RESTRICT") \in BaseMetadata["products"].fks
    BY KeysAre DEF TableNames
  <2> QED BY <1>2, <2>1
<1>11. "inventory" \in D <=> "products" \in D
  <2>1. /\ "inventory" \in TableNames
        /\ FK("product_id", "products", "RESTRICT") \in BaseMetadata["inventory"].fks
    BY KeysAre DEF TableNames
  <2> QED BY <1>2, <2>1
<1>12. "inventory" \in D <=> "warehouses" \in D
  <2>1. /\ "inventory" \in TableNames
        /\ FK("warehouse_id", "warehouses", "RESTRICT") \in BaseMetadata["inventory"].fks
    BY KeysAre DEF TableNames
  <2> QED BY <1>2, <2>1
<1>13. "payments" \in D <=> "orders" \in D
  <2>1. /\ "payments" \in TableNames
        /\ FK("order_id", "orders", "RESTRICT") \in BaseMetadata["payments"].fks
    BY KeysAre DEF TableNames
  <2> QED BY <1>2, <2>1
<1>14. "shipments" \in D <=> "orders" \in D
  <2>1. /\ "shipments" \in TableNames
        /\ FK("order_id", "orders", "RESTRICT") \in BaseMetadata["shipments"].fks
    BY KeysAre DEF TableNames
  <2> QED BY <1>2, <2>1
<1>15. "product_reviews" \in D <=> "products" \in D
  <2>1. /\ "product_reviews" \in TableNames
        /\ FK("product_id", "products", "RESTRICT") \in BaseMetadata["product_reviews"].fks
    BY KeysAre DEF TableNames
  <2> QED BY <1>2, <2>1
<1>16. "returns" \in D <=> "order_items" \in D
  <2>1. /\ "returns" \in TableNames
        /\ FK("order_item_id", "order_items", "RESTRICT") \in BaseMetadata["returns"].fks
    BY KeysAre DEF TableNames
  <2> QED BY <1>2, <2>1
<1>17. \A t \in TableNames : t \in D <=> "orders" \in D
  BY <1>4, <1>5, <1>6, <1>7, <1>8, <1>9, <1>10, <1>11, <1>12, <1>13, <1>14, <1>15, <1>16 DEF TableNames
<1> QED BY <1>3, <1>17, TablesAre

----------------------------------------------------------------------------
(* Paths along the edges of the schema.                                    *)

\* The tables the first n edges of e lead to from a.
ReachedBy(a, e, n) == {a} \cup {e[j].target : j \in 1..n}

\* Every edge starts at a table already reached.
Grounded(a, e) ==
  e \in Seq(ExtractRelationships) /\ \A i \in 1..Len(e) : e[i].source \in ReachedBy(a, e, i - 1)

LEMMA GroundedConcat ==
  ASSUME NEW a, NEW e, NEW f, Grounded(a, e), Grounded(a, f)
  PROVE  /\ Grounded(a, e \o f)
         /\ ReachedBy(a, e, Len(e)) \subseteq ReachedBy(a, e \o f, Len(e \o f))
         /\ ReachedBy(a, f, Len(f)) \subseteq ReachedBy(a, e \o f, Len(e \o f))
<1> DEFINE g == e \o f
           m == Len(e)
           n == Len(f)
<1>1. e \in Seq(ExtractRelationships) /\ f \in Seq(ExtractRelationships)
  BY DEF Grounded
<1>2. m \in Nat /\ n \in Nat /\ g \in Seq(ExtractRelationships) /\ Len(g) = m + n
      /\ (\A i \in 1..m : g[i] = e[i]) /\ (\A i \in 1..n : g[m + i] = f[i])
  BY <1>1
<1> HIDE DEF g, m, n
<1>3. ASSUME NEW j \in 1..n, NEW k \in Nat, m + j <= k PROVE f[j].target \in ReachedBy(a, g, k)
  <2>1. m + j \in 1..k /\ g[m + j] = f[j]
    BY <1>2, <1>3
  <2> QED BY <2>1 DEF ReachedBy
<1>4. ASSUME NEW j \in 1..m, NEW k \in Nat, j <= k PROVE e[j].target \in ReachedBy(a, g, k)
  <2>1. j \in 1..k /\ g[j] = e[j]
    BY <1>2, <1>4
  <2> QED BY <2>1 DEF ReachedBy
<1>5. ASSUME NEW i \in 1..Len(g) PROVE g[i].source \in ReachedBy(a, g, i - 1)
  <2>1. CASE i \in 1..m
    <3>1. g[i] = e[i] /\ e[i].source \in ReachedBy(a, e, i - 1)
      BY <1>2, <2>1 DEF Grounded, m
    <3>2. ASSUME NEW j \in 1..(i - 1) PROVE e[j].target \in ReachedBy(a, g, i - 1)
      <4>1. j \in 1..m /\ i - 1 \in Nat /\ j <= i - 1
        BY <1>2, <2>1
      <4> QED BY <1>4, <4>1
    <3>3. a \in ReachedBy(a, g, i - 1)
      BY DEF ReachedBy
    <3> QED BY <3>1, <3>2, <3>3 DEF ReachedBy
  <2>2. CASE i \notin 1..m
    <3>1. PICK k \in 1..n : i = m + k
      <4>1. i - m \in 1..n /\ i = m + (i - m)
        BY <1>2, <2>2
      <4> QED BY <4>1
    <3>2. g[i] = f[k] /\ f[k].source \in ReachedBy(a, f, k - 1)
      BY <1>2, <3>1 DEF Grounded, n
    <3>3. ASSUME NEW j \in 1..(k - 1) PROVE f[j].target \in ReachedBy(a, g, i - 1)
      <4>1. j \in 1..n /\ i - 1 \in Nat /\ m + j <= i - 1
        BY <1>2, <3>1
      <4> QED BY <1>3, <4>1
    <3>4. a \in ReachedBy(a, g, i - 1)
      BY DEF ReachedBy
    <3> QED BY <3>2, <3>3, <3>4 DEF ReachedBy
  <2> QED BY <2>1, <2>2
<1>6. Grounded(a, g)
  BY <1>2, <1>5 DEF Grounded
<1>7. Len(g) \in Nat /\ (\A j \in 1..m : j <= Len(g)) /\ (\A j \in 1..n : m + j <= Len(g))
  BY <1>2
<1>8. ReachedBy(a, e, m) \subseteq ReachedBy(a, g, Len(g))
  BY <1>4, <1>7 DEF ReachedBy
<1>9. ReachedBy(a, f, n) \subseteq ReachedBy(a, g, Len(g))
  BY <1>3, <1>7 DEF ReachedBy
<1> QED BY <1>6, <1>8, <1>9 DEF g, m, n

\* Leaving repetitions out keeps it so.
LEMMA GroundedDistinct ==
  ASSUME NEW a, NEW e, Grounded(a, e)
  PROVE  /\ Grounded(a, Distinct(e))
         /\ ReachedBy(a, e, Len(e)) \subseteq ReachedBy(a, Distinct(e), Len(Distinct(e)))
<1> DEFINE d == Distinct(e)
<1>1. e \in Seq(ExtractRelationships) /\ d \in Seq(ExtractRelationships) /\ Thins(d, e)
  BY DistinctThins DEF Grounded
<1> HIDE DEF d
<1>2. ASSUME NEW k \in 1..Len(d) PROVE d[k].source \in ReachedBy(a, d, k - 1)
  <2>1. PICK i \in 1..Len(e) :
          d[k] = e[i] /\ \A j \in 1..(i - 1) : \E l \in 1..(k - 1) : d[l] = e[j]
    BY <1>1 DEF Thins
  <2>2. e[i].source \in ReachedBy(a, e, i - 1)
    BY DEF Grounded
  <2>3. CASE e[i].source = a
    BY <2>1, <2>3 DEF ReachedBy
  <2>4. CASE e[i].source # a
    <3>1. PICK j \in 1..(i - 1) : e[i].source = e[j].target
      BY <2>2, <2>4 DEF ReachedBy
    <3>2. PICK l \in 1..(k - 1) : d[l] = e[j]
      BY <2>1
    <3> QED BY <2>1, <3>1, <3>2 DEF ReachedBy
  <2> QED BY <2>3, <2>4
<1>3. ReachedBy(a, e, Len(e)) \subseteq ReachedBy(a, d, Len(d))
  <2>1. ASSUME NEW i \in 1..Len(e) PROVE e[i].target \in ReachedBy(a, d, Len(d))
    <3>1. PICK k \in 1..Len(d) : d[k] = e[i]
      BY <1>1 DEF Thins
    <3> QED BY <3>1 DEF ReachedBy
  <2> QED BY <2>1 DEF ReachedBy
<1> QED BY <1>1, <1>2, <1>3 DEF d, Grounded

\* Paths from s: grounded, and each leads to its table.
Paths(s) == {p \in UNION {[D -> Seq(ExtractRelationships)] : D \in SUBSET ExtractTables} :
                /\ s \in DOMAIN p
                /\ \A t \in DOMAIN p : Grounded(s, p[t]) /\ t \in ReachedBy(s, p[t], Len(p[t]))}

LEMMA PathsAre ==
  ASSUME NEW s, NEW D \in SUBSET ExtractTables, s \in D, NEW p, p = [t \in D |-> p[t]],
         \A t \in D : Grounded(s, p[t]) /\ t \in ReachedBy(s, p[t], Len(p[t]))
  PROVE  p \in Paths(s)
<1>1. DOMAIN p = D /\ p \in [D -> Seq(ExtractRelationships)]
  BY DEF Grounded
<1> QED BY <1>1 DEF Paths

LEMMA PathsHave ==
  ASSUME NEW s, NEW p \in Paths(s)
  PROVE  /\ DOMAIN p \in SUBSET ExtractTables /\ s \in DOMAIN p
         /\ \A t \in DOMAIN p : Grounded(s, p[t]) /\ t \in ReachedBy(s, p[t], Len(p[t]))
BY DEF Paths

LEMMA FrontierHas ==
  ASSUME NEW D, NEW r
  PROVE  r \in Frontier(D) <=> r \in ExtractRelationships /\ r.source \in D /\ r.target \notin D
BY DEF Frontier, edges_from

LEMMA HopKeepsPaths ==
  ASSUME NEW s, NEW p \in Paths(s)
  PROVE  /\ Hop(p) \in Paths(s)
         /\ DOMAIN Hop(p) = DOMAIN p \cup {r.target : r \in Frontier(DOMAIN p)}
<1> DEFINE next == Frontier(DOMAIN p)
           last(t) == CHOOSE r \in next : r.target = t
           D == DOMAIN p \cup {r.target : r \in next}
           h == Hop(p)
<1>1. h = [t \in D |-> IF t \in DOMAIN p THEN p[t] ELSE Append(p[last(t).source], last(t))]
  BY DEF Hop
<1>2. DOMAIN h = D
  BY <1>1
<1>3. D \in SUBSET ExtractTables /\ s \in D
  BY PathsHave, FrontierHas, EdgesLeadToTables
<1>4. ASSUME NEW t \in D PROVE Grounded(s, h[t]) /\ t \in ReachedBy(s, h[t], Len(h[t]))
  <2>1. CASE t \in DOMAIN p
    <3>1. h[t] = p[t]
      BY <1>1, <2>1
    <3> QED BY <2>1, <3>1, PathsHave
  <2>2. CASE t \notin DOMAIN p
    <3>1. PICK r : r = last(t)
      OBVIOUS
    <3>2. r \in next /\ r.target = t
      BY <2>2, <3>1
    <3>3. r \in ExtractRelationships /\ r.source \in DOMAIN p
      BY <3>2, FrontierHas
    <3> DEFINE q == p[r.source]
               e == Append(q, r)
    <3>4. h[t] = e
      BY <1>1, <2>2, <3>1
    <3>5. Grounded(s, q) /\ r.source \in ReachedBy(s, q, Len(q))
      BY <3>3, PathsHave
    <3> HIDE DEF q
    <3>6. q \in Seq(ExtractRelationships) /\ Len(q) \in Nat
      BY <3>5 DEF Grounded
    <3>7. e \in Seq(ExtractRelationships) /\ Len(e) = Len(q) + 1 /\ e[Len(q) + 1] = r
          /\ \A i \in 1..Len(q) : e[i] = q[i]
      BY <3>3, <3>6
    <3> HIDE DEF e
    <3>8. ASSUME NEW i \in Nat, i <= Len(q) PROVE ReachedBy(s, e, i) = ReachedBy(s, q, i)
      <4>1. \A j \in 1..i : e[j] = q[j]
        BY <3>6, <3>7, <3>8
      <4> QED BY <4>1 DEF ReachedBy
    <3>9. ASSUME NEW i \in 1..Len(e) PROVE e[i].source \in ReachedBy(s, e, i - 1)
      <4>1. i - 1 \in Nat /\ i - 1 <= Len(q)
        BY <3>6, <3>7
      <4>2. ReachedBy(s, e, i - 1) = ReachedBy(s, q, i - 1)
        BY <3>8, <4>1
      <4>3. CASE i = Len(q) + 1
        <5>1. i - 1 = Len(q) /\ e[i] = r
          BY <3>6, <3>7, <4>3
        <5> QED BY <3>5, <4>2, <5>1
      <4>4. CASE i # Len(q) + 1
        <5>1. i \in 1..Len(q) /\ e[i] = q[i]
          BY <3>6, <3>7, <4>4
        <5> QED BY <3>5, <4>2, <5>1 DEF Grounded
      <4> QED BY <4>3, <4>4
    <3>10. t \in ReachedBy(s, e, Len(e))
      <4>1. Len(e) \in 1..Len(e) /\ e[Len(e)] = r
        BY <3>6, <3>7
      <4> QED BY <3>2, <4>1 DEF ReachedBy
    <3> QED BY <3>4, <3>7, <3>9, <3>10 DEF Grounded
  <2> QED BY <2>1, <2>2
<1>5. h = [t \in D |-> h[t]]
  BY <1>1
<1> HIDE DEF h, D
<1>6. h \in Paths(s)
  BY <1>3, <1>4, <1>5, PathsAre
<1> QED BY <1>2, <1>6 DEF h, D

PathsStep(s, n, after) ==
  [k \in 0..n |-> IF k = 0 THEN [t \in {s} |-> <<>>] ELSE Hop(after[k - 1])]

LEMMA StartIsPaths ==
  ASSUME NEW s \in ExtractTables
  PROVE  [t \in {s} |-> <<>>] \in Paths(s)
<1> DEFINE p == [t \in {s} |-> <<>>]
           D == {s}
<1>1. D \in SUBSET ExtractTables /\ s \in D /\ p = [t \in D |-> p[t]]
  OBVIOUS
<1>2. \A t \in D : p[t] = <<>>
  OBVIOUS
<1>3. Grounded(s, <<>>) /\ s \in ReachedBy(s, <<>>, Len(<<>>))
  BY DEF Grounded, ReachedBy
<1>4. \A t \in D : Grounded(s, p[t]) /\ t \in ReachedBy(s, p[t], Len(p[t]))
  BY <1>2, <1>3
<1> HIDE DEF p, D
<1>5. p \in Paths(s)
  BY <1>1, <1>4, PathsAre
<1> QED BY <1>5 DEF p

\* The rounds of the search, unfolded; all hold paths.
LEMMA PathsFromUnfolds ==
  ASSUME NEW s \in ExtractTables, NEW n \in Nat, n = Cardinality(ExtractTables)
  PROVE  \E after : /\ after = PathsStep(s, n, after) /\ PathsFrom(s) = after[n]
                    /\ \A k \in 0..n : after[k] \in Paths(s)
<1> DEFINE A == Paths(s)
           a == [t \in {s} |-> <<>>]
           F == [k \in 1..n |-> [p \in A |-> Hop(p)]]
           up == CHOOSE u : u = PathsStep(s, n, u)
<1>1. PathsFrom(s) = up[n]
  BY DEF PathsFrom, PathsStep
<1>2. a \in A
  BY StartIsPaths
<1>3. IsStep(F, A, n)
  <2> HIDE DEF A
  <2>1. \A p \in A : Hop(p) \in A
    BY HopKeepsPaths DEF A
  <2> QED BY <2>1 DEF IsStep
<1>4. PICK g : IsRun(g, F, A, n, a)
  <2> HIDE DEF F, A, a
  <2> QED BY <1>2, <1>3, Recursion
<1>5. ASSUME NEW k \in 0..n PROVE g[k] = PathsStep(s, n, g)[k]
  <2>1. CASE k = 0
    BY <1>4, <2>1 DEF PathsStep, IsRun
  <2>2. CASE k # 0
    <3>1. k \in 1..n /\ k - 1 \in 0..n
      BY <2>2
    <3>2. g[k - 1] \in A /\ g[k] = F[k][g[k - 1]]
      <4> HIDE DEF F, A, a
      <4> QED BY <1>4, <3>1 DEF IsRun
    <3>3. g[k] = Hop(g[k - 1])
      <4> HIDE DEF A
      <4> QED BY <3>1, <3>2
    <3> QED BY <2>2, <3>3 DEF PathsStep
  <2> QED BY <2>1, <2>2
<1>6. g = PathsStep(s, n, g)
  <2>1. g = [k \in 0..n |-> g[k]]
    <3> HIDE DEF F, A, a
    <3> QED BY <1>4 DEF IsRun
  <2> HIDE DEF F, A, a
  <2>2. PathsStep(s, n, g) = [k \in 0..n |-> PathsStep(s, n, g)[k]]
    BY DEF PathsStep
  <2> QED BY <1>5, <2>1, <2>2
<1>7. up = PathsStep(s, n, up)
  <2> HIDE DEF F, A, a
  <2> QED BY <1>6
<1> HIDE DEF up
<1> DEFINE T == {k \in 0..n : up[k] \in A}
<1>8. 0 \in T
  BY <1>2, <1>7 DEF PathsStep
<1>9. ASSUME NEW k \in 1..n, k - 1 \in T PROVE k \in T
  <2>1. k \in 0..n /\ k # 0
    OBVIOUS
  <2>2. up[k] = Hop(up[k - 1])
    BY <1>7, <2>1 DEF PathsStep
  <2>3. up[k - 1] \in Paths(s)
    BY <1>9
  <2>4. up[k] \in Paths(s)
    BY <2>2, <2>3, HopKeepsPaths
  <2> QED BY <2>1, <2>4
<1>10. \A k \in 0..n : k \in T
  <2> HIDE DEF T
  <2> QED BY <1>8, <1>9, StepByStep
<1> QED BY <1>1, <1>7, <1>10

\* Each round reaches one more table, or all are reached.
LEMMA PathsFromReachesAll ==
  ASSUME NEW s \in ExtractTables
  PROVE  PathsFrom(s) \in Paths(s) /\ DOMAIN PathsFrom(s) = ExtractTables
<1> DEFINE n == Cardinality(ExtractTables)
<1>1. n \in Nat
  BY FiniteTables, FS_CardinalityType
<1> HIDE DEF n
<1>2. PICK after : /\ after = PathsStep(s, n, after) /\ PathsFrom(s) = after[n]
                   /\ \A k \in 0..n : after[k] \in Paths(s)
  BY <1>1, PathsFromUnfolds DEF n
<1> DEFINE R(k) == DOMAIN after[k]
           T == {k \in 0..n : R(k) = ExtractTables \/ Cardinality(R(k)) >= k + 1}
<1>3. ASSUME NEW k \in 0..n
      PROVE  /\ R(k) \in SUBSET ExtractTables /\ s \in R(k) /\ IsFiniteSet(R(k))
             /\ Cardinality(R(k)) \in Nat /\ Cardinality(R(k)) <= n
  <2>1. R(k) \in SUBSET ExtractTables /\ s \in R(k)
    BY <1>2, PathsHave
  <2>2. IsFiniteSet(R(k)) /\ Cardinality(R(k)) <= n
    BY <2>1, FiniteTables, FS_Subset DEF n
  <2> QED BY <2>1, <2>2, FS_CardinalityType
<1>4. ASSUME NEW k \in 1..n
      PROVE  R(k) = R(k - 1) \cup {r.target : r \in Frontier(R(k - 1))}
  <2>1. k \in 0..n /\ k # 0 /\ k - 1 \in 0..n
    BY <1>1
  <2>2. after[k] = Hop(after[k - 1])
    BY <1>2, <2>1 DEF PathsStep
  <2> QED BY <1>2, <2>1, <2>2, HopKeepsPaths
<1>5. 0 \in T
  <2>1. 0 \in 0..n
    BY <1>1
  <2>2. {s} \in SUBSET R(0)
    BY <1>3, <2>1
  <2>3. Cardinality({s}) <= Cardinality(R(0)) /\ Cardinality({s}) = 1
    BY <1>3, <2>1, <2>2, FS_Subset, FS_Singleton
  <2>4. Cardinality(R(0)) \in Nat
    BY <1>3, <2>1
  <2> HIDE DEF R
  <2> QED BY <2>1, <2>3, <2>4
<1>6. ASSUME NEW k \in 1..n, k - 1 \in T PROVE k \in T
  <2>1. k \in 0..n /\ k - 1 \in 0..n /\ k \in Nat
    BY <1>1
  <2>2. CASE R(k - 1) = ExtractTables
    <3>1. R(k) = ExtractTables
      BY <1>3, <1>4, <2>1, <2>2
    <3> QED BY <2>1, <3>1
  <2>3. CASE R(k - 1) # ExtractTables
    <3>1. PICK r \in ExtractRelationships : r.source \in R(k - 1) /\ r.target \notin R(k - 1)
      BY <1>3, <2>1, <2>3, SchemaConnected
    <3>2. r \in Frontier(R(k - 1))
      BY <3>1, FrontierHas
    <3> DEFINE x == r.target
               W == R(k - 1) \cup {x}
    <3>3. W \in SUBSET R(k)
      BY <1>4, <3>2
    <3>4. Cardinality(W) = Cardinality(R(k - 1)) + 1 /\ IsFiniteSet(W)
      <4>1. IsFiniteSet(R(k - 1)) /\ x \notin R(k - 1)
        BY <1>3, <2>1, <3>1
      <4> HIDE DEF R, x
      <4> QED BY <4>1, FS_AddElement
    <3>5. Cardinality(W) <= Cardinality(R(k))
      <4> HIDE DEF W, R
      <4> QED BY <1>3, <2>1, <3>3, FS_Subset
    <3>6. Cardinality(R(k - 1)) >= (k - 1) + 1
      BY <1>6, <2>3
    <3>7. Cardinality(R(k)) \in Nat /\ Cardinality(R(k - 1)) \in Nat
      BY <1>3, <2>1
    <3>8. Cardinality(R(k)) >= k + 1
      <4> HIDE DEF W, R
      <4> QED BY <2>1, <3>4, <3>5, <3>6, <3>7
    <3> QED BY <2>1, <3>8
  <2> QED BY <2>2, <2>3
<1>7. n \in T
  <2> HIDE DEF T
  <2>1. \A k \in 0..n : k \in T
    BY <1>1, <1>5, <1>6, StepByStep
  <2> QED BY <1>1, <2>1
<1>8. n \in 0..n
  BY <1>1
<1>9. R(n) = ExtractTables
  <2>1. Cardinality(R(n)) \in Nat /\ Cardinality(R(n)) <= n
    BY <1>3, <1>8
  <2>2. ~ (Cardinality(R(n)) >= n + 1)
    <3> HIDE DEF R
    <3> QED BY <1>1, <2>1
  <2> QED BY <1>7, <2>2
<1> QED BY <1>2, <1>8, <1>9

\* So there is a path between any two tables.
LEMMA PathLeadsThere ==
  ASSUME NEW s \in ExtractTables, NEW t \in ExtractTables
  PROVE  /\ Grounded(s, find_path(s, t))
         /\ t \in ReachedBy(s, find_path(s, t), Len(find_path(s, t)))
<1>1. find_path(s, t) = PathsFrom(s)[t]
  BY PathsFromReachesAll DEF find_path, PathTo
<1> QED BY <1>1, PathsFromReachesAll, PathsHave

EdgesStep(a, others, n, edges) ==
  [k \in 0..n |-> IF k = 0 THEN <<>> ELSE edges[k - 1] \o find_path(a, others[k])]

\* The edges of find_paths_from, unfolded.
LEMMA EdgesUnfold ==
  ASSUME NEW a \in ExtractTables, NEW others \in Seq(ExtractTables), NEW n \in Nat, n = Len(others)
  PROVE  \E edges : /\ edges = EdgesStep(a, others, n, edges)
                    /\ find_paths_from(a, others) = Distinct(edges[n])
<1> DEFINE A == {e \in Seq(ExtractRelationships) : Grounded(a, e)}
           z == <<>>
           F == [k \in 1..n |-> [e \in A |-> e \o find_path(a, others[k])]]
           up == CHOOSE u : u = EdgesStep(a, others, n, u)
<1>1. find_paths_from(a, others) = Distinct(up[n])
  BY DEF find_paths_from, EdgesStep
<1>2. z \in A
  BY DEF Grounded
<1>3. IsStep(F, A, n)
  <2>1. ASSUME NEW k \in 1..n, NEW e \in A PROVE e \o find_path(a, others[k]) \in A
    <3>1. others[k] \in ExtractTables
      OBVIOUS
    <3>2. Grounded(a, find_path(a, others[k])) /\ Grounded(a, e)
      BY <3>1, PathLeadsThere
    <3>3. Grounded(a, e \o find_path(a, others[k]))
      BY <3>2, GroundedConcat
    <3> QED BY <3>3 DEF Grounded
  <2> HIDE DEF A
  <2> QED BY <2>1 DEF IsStep
<1>4. PICK g : IsRun(g, F, A, n, z)
  <2> HIDE DEF F, A, z
  <2> QED BY <1>2, <1>3, Recursion
<1>5. ASSUME NEW k \in 0..n PROVE g[k] = EdgesStep(a, others, n, g)[k]
  <2>1. CASE k = 0
    BY <1>4, <2>1 DEF EdgesStep, IsRun
  <2>2. CASE k # 0
    <3>1. k \in 1..n /\ k - 1 \in 0..n
      BY <2>2
    <3>2. g[k - 1] \in A /\ g[k] = F[k][g[k - 1]]
      <4> HIDE DEF F, A, z
      <4> QED BY <1>4, <3>1 DEF IsRun
    <3>3. g[k] = g[k - 1] \o find_path(a, others[k])
      <4> HIDE DEF A
      <4> QED BY <3>1, <3>2
    <3> QED BY <2>2, <3>3 DEF EdgesStep
  <2> QED BY <2>1, <2>2
<1>6. g = EdgesStep(a, others, n, g)
  <2> HIDE DEF F, A, z
  <2>1. g = [k \in 0..n |-> g[k]]
    BY <1>4 DEF IsRun
  <2>2. EdgesStep(a, others, n, g) = [k \in 0..n |-> EdgesStep(a, others, n, g)[k]]
    BY DEF EdgesStep
  <2> QED BY <1>5, <2>1, <2>2
<1>7. up = EdgesStep(a, others, n, up)
  <2> HIDE DEF F, A, z
  <2> QED BY <1>6
<1> QED BY <1>1, <1>7

\* Path after path: grounded, and every table so far is reached.
LEMMA PathsReachOthers ==
  ASSUME NEW a \in ExtractTables, NEW others \in Seq(ExtractTables)
  PROVE  LET joins == find_paths_from(a, others)
         IN  /\ Grounded(a, joins)
             /\ \A i \in 1..Len(others) : others[i] \in ReachedBy(a, joins, Len(joins))
<1> DEFINE n == Len(others)
<1>1. n \in Nat
  OBVIOUS
<1> HIDE DEF n
<1>2. PICK edges : /\ edges = EdgesStep(a, others, n, edges)
                   /\ find_paths_from(a, others) = Distinct(edges[n])
  BY <1>1, EdgesUnfold DEF n
<1> DEFINE Good(k) == /\ Grounded(a, edges[k])
                      /\ \A i \in 1..k : others[i] \in ReachedBy(a, edges[k], Len(edges[k]))
           T == {k \in 0..n : Good(k)}
<1>3. 0 \in T
  <2>1. 0 \in 0..n /\ edges[0] = <<>>
    BY <1>1, <1>2 DEF EdgesStep
  <2>2. Grounded(a, <<>>)
    BY DEF Grounded
  <2>3. Good(0)
    BY <2>1, <2>2
  <2> QED BY <2>1, <2>3
<1>4. ASSUME NEW k \in 1..n, k - 1 \in T PROVE k \in T
  <2>1. k \in 0..n /\ k # 0 /\ k - 1 \in 0..n
    BY <1>1
  <2> DEFINE e == edges[k - 1]
             f == find_path(a, others[k])
  <2>2. edges[k] = e \o f
    BY <1>2, <2>1 DEF EdgesStep
  <2>3. others[k] \in ExtractTables
    BY DEF n
  <2>4. Grounded(a, f) /\ others[k] \in ReachedBy(a, f, Len(f))
    BY <2>3, PathLeadsThere
  <2>5. Grounded(a, e) /\ \A i \in 1..(k - 1) : others[i] \in ReachedBy(a, e, Len(e))
    BY <1>4
  <2> HIDE DEF e, f
  <2>6. /\ Grounded(a, e \o f)
        /\ ReachedBy(a, e, Len(e)) \subseteq ReachedBy(a, e \o f, Len(e \o f))
        /\ ReachedBy(a, f, Len(f)) \subseteq ReachedBy(a, e \o f, Len(e \o f))
    BY <2>4, <2>5, GroundedConcat
  <2>7. ASSUME NEW i \in 1..k PROVE others[i] \in ReachedBy(a, e \o f, Len(e \o f))
    <3>1. i = k \/ i \in 1..(k - 1)
      BY <1>1
    <3> QED BY <2>4, <2>5, <2>6, <3>1
  <2>8. Good(k)
    BY <2>2, <2>6, <2>7
  <2> QED BY <2>1, <2>8
<1>5. n \in T
  <2> HIDE DEF T
  <2>1. \A k \in 0..n : k \in T
    BY <1>1, <1>3, <1>4, StepByStep
  <2> QED BY <1>1, <2>1
<1>6. Good(n)
  BY <1>5
<1> QED BY <1>2, <1>6, GroundedDistinct DEF n

----------------------------------------------------------------------------
(* What the parser makes are lists.                                        *)

\* A sequence, of whatever it holds.
IsList(s) == s \in Seq({s[i] : i \in DOMAIN s})

LEMMA ListIs ==
  ASSUME NEW s, IsList(s)
  PROVE  Len(s) \in Nat /\ DOMAIN s = 1..Len(s)
BY DEF IsList

LEMMA SeqIsList ==
  ASSUME NEW T, NEW s \in Seq(T)
  PROVE  IsList(s)
BY DEF IsList

LEMMA ListOf ==
  ASSUME NEW T, NEW s, IsList(s), \A i \in DOMAIN s : s[i] \in T
  PROVE  s \in Seq(T)
BY DEF IsList

LEMMA ListByLength ==
  ASSUME NEW n \in Nat, NEW s, s = [i \in 1..n |-> s[i]]
  PROVE  IsList(s) /\ Len(s) = n
BY DEF IsList

\* One element for each of another list.
LEMMA ListAlong ==
  ASSUME NEW s, IsList(s), NEW f, f = [i \in DOMAIN s |-> f[i]]
  PROVE  IsList(f) /\ DOMAIN f = DOMAIN s /\ Len(f) = Len(s)
BY ListIs, ListByLength

LEMMA ListConcat ==
  ASSUME NEW a, NEW b, IsList(a), IsList(b)
  PROVE  IsList(a \o b)
<1> DEFINE T == {a[i] : i \in DOMAIN a} \cup {b[i] : i \in DOMAIN b}
<1>1. a \in Seq(T) /\ b \in Seq(T)
  BY ListOf
<1> HIDE DEF T
<1>2. a \o b \in Seq(T)
  BY <1>1
<1> QED BY <1>2, SeqIsList

LEMMA DistinctIsList ==
  ASSUME NEW e, IsList(e)
  PROVE  IsList(Distinct(e))
<1> DEFINE T == {e[i] : i \in DOMAIN e}
<1>1. e \in Seq(T)
  BY DEF IsList
<1> HIDE DEF T
<1> QED BY <1>1, DistinctThins, SeqIsList

LEMMA InOrderIsList ==
  ASSUME NEW S, NEW n \in Nat
  PROVE  IsList(InOrder(S, n))
BY InOrderLists, SeqIsList DEF ListsInOrder

LEMMA ByPlaceIsList ==
  ASSUME NEW text \in Seq(STRING), NEW found
  PROVE  IsList(ByPlace(text, found))
<1> DEFINE places == InOrder({m.at : m \in found}, Len(text))
           f == ByPlace(text, found)
<1>1. IsList(places)
  BY InOrderIsList
<1>2. f = [k \in DOMAIN places |-> CHOOSE m \in found : m.at = places[k]]
  BY DEF ByPlace
<1> HIDE DEF places, f
<1>3. f = [k \in DOMAIN places |-> f[k]]
  BY <1>2
<1>4. IsList(f)
  BY <1>1, <1>3, ListAlong
<1> QED BY <1>4 DEF f

LEMMA NamesList ==
  ASSUME NEW m, IsList(m)
  PROVE  IsList(Names(m)) /\ DOMAIN Names(m) = DOMAIN m
<1>1. Names(m) = [i \in DOMAIN m |-> Names(m)[i]]
  BY DEF Names
<1> QED BY <1>1, ListAlong

LEMMA FieldsList ==
  ASSUME NEW m, IsList(m)
  PROVE  IsList(Fields(m)) /\ DOMAIN Fields(m) = DOMAIN m
<1>1. Fields(m) = [i \in DOMAIN m |-> Fields(m)[i]]
  BY DEF Fields
<1> QED BY <1>1, ListAlong

LEMMA MatchesList ==
  ASSUME NEW text \in Seq(STRING), NEW vocabulary
  PROVE  IsList(find_vocabulary_matches(text, vocabulary))
BY ByPlaceIsList DEF find_vocabulary_matches

LEMMA MetricsList ==
  ASSUME NEW text \in Seq(STRING)
  PROVE  IsList(ExtractMetrics(text))
<1> DEFINE found == find_vocabulary_matches(text, METRIC_SYNONYMS)
<1>1. IsList(found)
  BY MatchesList
<1>2. ExtractMetrics(text) = Metrics(text, found)
  BY DEF ExtractMetrics
<1> HIDE DEF found
<1>3. Metrics(text, found) = [i \in DOMAIN found |-> Metrics(text, found)[i]]
  BY DEF Metrics
<1> QED BY <1>1, <1>2, <1>3, ListAlong

LEMMA FiltersList ==
  ASSUME NEW text \in Seq(STRING)
  PROVE  IsList(ExtractFilters(text))
<1>1. PICK found : ExtractFilters(text) = Filters(text, ByPlace(text, found))
  BY DEF ExtractFilters
<1> DEFINE matches == ByPlace(text, found)
<1>2. IsList(matches)
  BY ByPlaceIsList
<1> HIDE DEF matches
<1>3. Filters(text, matches) = [i \in DOMAIN matches |-> Filters(text, matches)[i]]
  BY DEF Filters
<1>4. IsList(Filters(text, matches))
  BY <1>2, <1>3, ListAlong
<1> QED BY <1>1, <1>4 DEF matches

LEMMA SortList ==
  ASSUME NEW text, NEW metrics
  PROVE  IsList(ExtractSort(text, metrics))
<1>1. \A x : IsList(<<x>>)
  BY DEF IsList
<1>2. IsList(<<>>)
  BY DEF IsList
<1>3. ASSUME NEW at, NEW field PROVE IsList(SortBy(text, at, field))
  BY <1>1, <1>2 DEF SortBy
<1>4. ASSUME NEW by PROVE IsList(ExplicitSort(text, metrics, by))
  BY <1>2, <1>3 DEF ExplicitSort
<1>5. ASSUME NEW hits PROVE IsList(SuperlativeSort(metrics, hits))
  BY <1>1, <1>2 DEF SuperlativeSort
<1>6. PICK by, hits : ExtractSort(text, metrics)
                        = FirstOf(ExplicitSort(text, metrics, by), SuperlativeSort(metrics, hits))
  BY DEF ExtractSort
<1> QED BY <1>4, <1>5, <1>6 DEF FirstOf

\* What a context holds are lists.
Lists(c) == /\ IsList(c.entities) /\ IsList(c.dimensions) /\ IsList(c.metrics)
            /\ IsList(c.filters) /\ IsList(c.sort) /\ IsList(c.concepts)

LEMMA ParseMakesLists ==
  ASSUME NEW text \in Seq(STRING)
  PROVE  Lists(Parse(text))
<1> DEFINE E == Names(find_vocabulary_matches(text, ENTITY_SYNONYMS))
           D == Names(find_vocabulary_matches(text, DIMENSION_SYNONYMS))
           M == ExtractMetrics(text)
           F == ExtractFilters(text)
           FF == [i \in DOMAIN F |-> F[i].field]
<1>1. IsList(E) /\ IsList(D) /\ IsList(M) /\ IsList(F)
  BY MatchesList, NamesList, MetricsList, FiltersList
<1>2. Parse(text) = QueryContext(text, Classify(text), E, D, M, F, ExtractTime(text))
  BY DEF Parse
<1> HIDE DEF E, D, M, F
<1>3. IsList(FF)
  <2>1. FF = [i \in DOMAIN F |-> FF[i]]
    OBVIOUS
  <2> HIDE DEF FF
  <2> QED BY <1>1, <2>1, ListAlong
<1>4. IsList(collect_business_concepts(E, D, M, F))
  <2>1. IsList(E \o D \o Names(M) \o FF)
    <3> HIDE DEF FF
    <3> QED BY <1>1, <1>3, NamesList, ListConcat
  <2> QED BY <2>1, DistinctIsList DEF collect_business_concepts
<1>5. IsList(ExtractSort(text, M))
  BY SortList
<1> HIDE DEF FF
<1> QED BY <1>1, <1>2, <1>4, <1>5 DEF Lists, QueryContext

----------------------------------------------------------------------------
(* What the linker makes of them.                                          *)

\* Resolved elements, each to a table of the registry.
Resolved(s) == IsList(s) /\ \A i \in DOMAIN s : s[i].table \in ExtractTables

LEMMA CandidatesNameTables ==
  ASSUME NEW isTable, NEW concept, NEW c \in GenerateCandidates(isTable, concept)
  PROVE  c.table \in ExtractTables
<1>1. \A i \in Tables : i.table \in ExtractTables
  BY DEF Tables, Enrich
<1>2. \A i \in ColumnItems : i.table \in ExtractTables
  BY ColumnsAssumption DEF ColumnItems
<1>3. PICK i \in (IF isTable THEN Tables ELSE ColumnItems) :
        c = [table |-> i.table, column |-> i.column, confidence |-> Score(concept, i, Match(concept, i))]
  BY DEF GenerateCandidates
<1> QED BY <1>1, <1>2, <1>3

LEMMA WinnersNameTables ==
  ASSUME NEW isTable, NEW concepts, NEW i \in DOMAIN concepts,
         NEW c \in Winners(<<>>, isTable, concepts)[i]
  PROVE  c.table \in ExtractTables
<1>1. DOMAIN <<>> = {}
  OBVIOUS
<1>2. Cached(<<>>, isTable, concepts[i]) = GenerateCandidates(isTable, concepts[i])
  BY <1>1 DEF Cached
<1>3. c \in GenerateCandidates(isTable, concepts[i])
  BY <1>2 DEF Winners, Winner
<1> QED BY <1>3, CandidatesNameTables

LEMMA ResolveNamesTables ==
  ASSUME NEW isTable, NEW concepts, NEW seq, IsList(seq), DOMAIN concepts = DOMAIN seq
  PROVE  Resolved(Resolve(Winners(<<>>, isTable, concepts), seq))
<1> DEFINE winners == Winners(<<>>, isTable, concepts)
           S == {i \in DOMAIN seq : winners[i] # {}}
           won == InOrder(S, Len(seq))
           c(j) == CHOOSE x \in winners[won[j]] : TRUE
           f == Resolve(winners, seq)
<1>1. f = [j \in DOMAIN won |-> [of |-> seq[won[j]], table |-> c(j).table, column |-> c(j).column]]
  BY DEF Resolve
<1>2. IsList(won) /\ ListsInOrder(won, S, Len(seq))
  BY ListIs, InOrderIsList, InOrderLists
<1>3. IsList(f) /\ DOMAIN f = DOMAIN won
  <2> HIDE DEF f, won
  <2>1. f = [j \in DOMAIN won |-> f[j]]
    BY <1>1
  <2> QED BY <1>2, <2>1, ListAlong
<1>4. ASSUME NEW j \in DOMAIN won PROVE f[j].table \in ExtractTables
  <2>1. won[j] \in DOMAIN seq /\ winners[won[j]] # {}
    <3> HIDE DEF won
    <3>1. won[j] \in S
      BY <1>2, ListIs DEF ListsInOrder
    <3> QED BY <3>1
  <2>2. c(j) \in winners[won[j]]
    BY <2>1
  <2>3. c(j).table \in ExtractTables
    <3> HIDE DEF won, c
    <3> QED BY <2>1, <2>2, WinnersNameTables
  <2> HIDE DEF f, won, c
  <2> QED BY <1>1, <2>3
<1> HIDE DEF f, won
<1>5. Resolved(f)
  BY <1>3, <1>4 DEF Resolved
<1> QED BY <1>5 DEF f

LEMMA TablesOfResolved ==
  ASSUME NEW s, Resolved(s)
  PROVE  TablesOf(s) \in Seq(ExtractTables)
<1>1. /\ TablesOf(s) = [i \in DOMAIN s |-> TablesOf(s)[i]]
      /\ \A i \in DOMAIN s : TablesOf(s)[i] \in ExtractTables
  BY DEF TablesOf, Resolved
<1>2. IsList(TablesOf(s)) /\ DOMAIN TablesOf(s) = DOMAIN s
  BY <1>1, ListAlong DEF Resolved
<1> QED BY <1>1, <1>2, ListOf

LEMMA TablesOfConcat ==
  ASSUME NEW a, NEW b, Resolved(a), Resolved(b)
  PROVE  Resolved(a \o b) /\ TablesOf(a \o b) = TablesOf(a) \o TablesOf(b)
<1> DEFINE T == {a[i] : i \in DOMAIN a} \cup {b[i] : i \in DOMAIN b}
           A == TablesOf(a)
           B == TablesOf(b)
           g == a \o b
           G == TablesOf(g)
<1>1. a \in Seq(T) /\ b \in Seq(T)
  BY ListOf DEF Resolved
<1>2. \A x \in T : x.table \in ExtractTables
  BY DEF Resolved
<1> HIDE DEF T
<1>3. g \in Seq(T)
  BY <1>1
<1>4. Resolved(g)
  <2>1. \A i \in DOMAIN g : g[i] \in T
    BY <1>3
  <2> HIDE DEF g
  <2> QED BY <1>2, <1>3, <2>1, SeqIsList DEF Resolved
<1>5. A \in Seq(ExtractTables) /\ B \in Seq(ExtractTables) /\ G \in Seq(ExtractTables)
  <2> HIDE DEF g
  <2> QED BY <1>4, TablesOfResolved
<1>6. Len(A) = Len(a) /\ Len(B) = Len(b) /\ Len(G) = Len(g) /\ Len(g) = Len(a) + Len(b)
      /\ Len(a) \in Nat /\ Len(b) \in Nat
  <2>1. \A s \in Seq(T) : TablesOf(s) \in Seq(ExtractTables) => Len(TablesOf(s)) = Len(s)
    BY DEF TablesOf
  <2>2. Len(g) = Len(a) + Len(b) /\ Len(a) \in Nat /\ Len(b) \in Nat
    BY <1>1
  <2> HIDE DEF g
  <2> QED BY <1>1, <1>3, <1>5, <2>1, <2>2
<1>7. ASSUME NEW i \in 1..Len(g) PROVE G[i] = (A \o B)[i]
  <2>1. G[i] = g[i].table
    BY <1>3 DEF TablesOf
  <2>2. CASE i \in 1..Len(a)
    <3>1. g[i] = a[i] /\ A[i] = a[i].table
      BY <1>1, <2>2 DEF TablesOf
    <3>2. (A \o B)[i] = A[i]
      <4> HIDE DEF A, B
      <4> QED BY <1>5, <1>6, <2>2
    <3> QED BY <2>1, <3>1, <3>2
  <2>3. CASE i \notin 1..Len(a)
    <3>1. PICK k \in 1..Len(b) : i = Len(a) + k
      <4>1. i - Len(a) \in 1..Len(b) /\ i = Len(a) + (i - Len(a))
        BY <1>6, <2>3
      <4> QED BY <4>1
    <3>2. g[i] = b[k] /\ B[k] = b[k].table
      BY <1>1, <3>1 DEF TablesOf
    <3>3. (A \o B)[i] = B[k]
      <4> HIDE DEF A, B
      <4> QED BY <1>5, <1>6, <3>1
    <3> QED BY <2>1, <3>2, <3>3
  <2> QED BY <2>2, <2>3
<1>8. A \o B \in Seq(ExtractTables) /\ Len(A \o B) = Len(g)
  <2> HIDE DEF A, B, g
  <2> QED BY <1>5, <1>6, SMTT(30)
<1>9. G = A \o B
  <2> HIDE DEF A, B, g, G
  <2> QED BY <1>5, <1>6, <1>7, <1>8
<1> QED BY <1>4, <1>9

\* A linked context: lists of resolved elements, joined along their tables.
Linked(l) ==
  /\ Lists(l.context)
  /\ Resolved(l.entities) /\ Resolved(l.metrics) /\ Resolved(l.dimensions)
  /\ Resolved(l.filters) /\ Resolved(l.sort)
  /\ l.joins = resolve_relationship_paths(TablesOf(l.entities), TablesOf(l.metrics \o l.dimensions),
                                          TablesOf(l.filters \o l.sort))

LEMMA LinkMakesLinked ==
  ASSUME NEW context, Lists(context)
  PROVE  Linked(Link(<<>>, context))
<1> DEFINE E == Resolve(Winners(<<>>, TRUE, context.entities), context.entities)
           M == Resolve(Winners(<<>>, FALSE, Names(context.metrics)), context.metrics)
           D == Resolve(Winners(<<>>, FALSE, context.dimensions), context.dimensions)
           F == Resolve(Winners(<<>>, FALSE, Fields(context.filters)), context.filters)
           S == Resolve(Winners(<<>>, FALSE, Fields(context.sort)), context.sort)
<1>1. Resolved(E) /\ Resolved(M) /\ Resolved(D) /\ Resolved(F) /\ Resolved(S)
  BY ResolveNamesTables, NamesList, FieldsList DEF Lists
<1>2. PICK ambiguities : Link(<<>>, context) = LinkedQueryContext(context, E, M, D, F, S, ambiguities)
  BY DEF Link
<1> HIDE DEF E, M, D, F, S
<1> QED BY <1>1, <1>2 DEF Linked, LinkedQueryContext

\* The tables that are joined are the tables the answer needs.
LEMMA JoinedAreResolved ==
  ASSUME NEW l, Linked(l)
  PROVE  LET all == TablesOf(l.entities \o l.metrics \o l.dimensions \o l.filters \o l.sort)
             parts == TablesOf(l.entities) \o TablesOf(l.metrics \o l.dimensions)
                      \o TablesOf(l.filters \o l.sort)
         IN  all = parts /\ all \in Seq(ExtractTables)
<1> DEFINE E == TablesOf(l.entities)
           M == TablesOf(l.metrics)
           D == TablesOf(l.dimensions)
           F == TablesOf(l.filters)
           S == TablesOf(l.sort)
           Q == Seq(ExtractTables)
           em == l.entities \o l.metrics
           emd == em \o l.dimensions
           emdf == emd \o l.filters
           all == emdf \o l.sort
<1>1. E \in Q /\ M \in Q /\ D \in Q /\ F \in Q /\ S \in Q
  BY TablesOfResolved DEF Linked
<1>0. /\ Resolved(l.entities) /\ Resolved(l.metrics) /\ Resolved(l.dimensions)
      /\ Resolved(l.filters) /\ Resolved(l.sort)
  BY DEF Linked
<1>2. Resolved(em) /\ TablesOf(em) = E \o M
  BY <1>0, TablesOfConcat, Zenon
<1>3. Resolved(emd) /\ TablesOf(emd) = (E \o M) \o D
  <2> HIDE DEF em, E, M, D, F, S
  <2> QED BY <1>0, <1>2, TablesOfConcat, Zenon DEF D, F, S
<1>4. Resolved(emdf) /\ TablesOf(emdf) = ((E \o M) \o D) \o F
  <2> HIDE DEF emd, E, M, D, F, S
  <2> QED BY <1>0, <1>3, TablesOfConcat, Zenon DEF D, F, S
<1>5. Resolved(all) /\ TablesOf(all) = (((E \o M) \o D) \o F) \o S
  <2> HIDE DEF emdf, E, M, D, F, S
  <2> QED BY <1>0, <1>4, TablesOfConcat, Zenon DEF D, F, S
<1>6. TablesOf(l.metrics \o l.dimensions) = M \o D /\ TablesOf(l.filters \o l.sort) = F \o S
  BY <1>0, TablesOfConcat, Zenon
<1>7. (((E \o M) \o D) \o F) \o S = (E \o (M \o D)) \o (F \o S)
  <2> DEFINE X == (E \o M) \o D
  <2>1. X = E \o (M \o D) /\ X \in Q
    <3> HIDE DEF E, M, D
    <3> QED BY <1>1, SMTT(30)
  <2>2. (X \o F) \o S = X \o (F \o S)
    <3> HIDE DEF X, F, S
    <3> QED BY <1>1, <2>1, SMTT(30)
  <2> QED BY <2>1, <2>2
<1>8. TablesOf(all) \in Q
  <2> HIDE DEF all
  <2> QED BY <1>5, TablesOfResolved
<1> QED BY <1>5, <1>6, <1>7, <1>8

Connects(tables, joins) ==
  Len(tables) > 1 =>
     /\ ToSet(tables) \subseteq ReachedBy(tables[1], joins, Len(joins))
     /\ \A i \in DOMAIN joins : joins[i].source \in ReachedBy(tables[1], joins, i - 1)

LEMMA JoinsOfLinked ==
  ASSUME NEW l, Linked(l)
  PROVE  Connects(resolved_table_names(l), l.joins) /\ IsList(l.joins)
<1> DEFINE all == TablesOf(l.entities \o l.metrics \o l.dimensions \o l.filters \o l.sort)
           tables == Distinct(all)
<1>1. resolved_table_names(l) = tables
  BY DEF resolved_table_names
<1>2. tables \in Seq(ExtractTables)
  BY JoinedAreResolved, DistinctThins
<1>3. l.joins = IF Len(tables) < 2 THEN <<>> ELSE find_paths_from(Head(tables), Tail(tables))
  <2> DEFINE A == TablesOf(l.entities)
             B == TablesOf(l.metrics \o l.dimensions)
             C == TablesOf(l.filters \o l.sort)
  <2>1. l.joins = resolve_relationship_paths(A, B, C)
    BY DEF Linked
  <2>2. all = A \o B \o C
    BY JoinedAreResolved
  <2> HIDE DEF A, B, C, all
  <2> QED BY <2>1, <2>2 DEF resolve_relationship_paths
<1> HIDE DEF tables
<1>4. Len(tables) \in Nat
  BY <1>2
<1>5. CASE Len(tables) < 2
  <2>1. IsList(<<>>)
    BY DEF IsList
  <2> QED BY <1>1, <1>3, <1>4, <1>5, <2>1 DEF Connects
<1>6. CASE ~ (Len(tables) < 2)
  <2> DEFINE a == tables[1]
             others == Tail(tables)
             joins == find_paths_from(a, others)
  <2>1. a = Head(tables) /\ a \in ExtractTables /\ others \in Seq(ExtractTables)
        /\ Len(others) = Len(tables) - 1 /\ \A i \in 1..Len(others) : others[i] = tables[i + 1]
    BY <1>2, <1>4, <1>6
  <2>2. l.joins = joins
    BY <1>3, <1>6, <2>1
  <2> HIDE DEF a, others
  <2>3. Grounded(a, joins) /\ \A i \in 1..Len(others) : others[i] \in ReachedBy(a, joins, Len(joins))
    BY <2>1, PathsReachOthers
  <2> HIDE DEF joins
  <2>4. IsList(joins) /\ \A i \in DOMAIN joins : joins[i].source \in ReachedBy(a, joins, i - 1)
    BY <2>3, SeqIsList, ListIs DEF Grounded
  <2>5. ASSUME NEW x \in ToSet(tables) PROVE x \in ReachedBy(a, joins, Len(joins))
    <3>1. PICK i \in 1..Len(tables) : x = tables[i]
      BY <1>2 DEF ToSet
    <3>2. CASE i = 1
      BY <3>1, <3>2 DEF ReachedBy, a
    <3>3. CASE i # 1
      <4>1. i - 1 \in 1..Len(others) /\ (i - 1) + 1 = i
        BY <1>4, <2>1, <3>3
      <4>2. others[i - 1] = tables[i]
        BY <2>1, <4>1
      <4> QED BY <2>3, <3>1, <4>1, <4>2
    <3> QED BY <3>2, <3>3
  <2> QED BY <1>1, <2>2, <2>4, <2>5 DEF Connects, a
<1> QED BY <1>5, <1>6

----------------------------------------------------------------------------
(* The budget, for any sections: their lines are whatever the builders     *)
(* made them of.                                                           *)

SectionSet == {"system", "business_context", "schema_context", "relationship",
               "retrieved_examples", "constraint", "output_format"}
Piece(L) == [name : SectionSet, lines : L, chars : Nat, shown : Nat, marked : BOOLEAN]

LEMMA TokensAre ==
  ASSUME NEW c \in Nat
  PROVE  Tokens(c) \in Nat /\ c <= 4 * Tokens(c) /\ 4 * Tokens(c) <= c + 3
BY DEF Tokens

LEMMA TokensOfWhole ==
  ASSUME NEW t \in Nat
  PROVE  Tokens(4 * t) = t /\ Tokens(4 * t + MarkerChars) = t + 9 /\ Tokens(MarkerChars) = 9
BY DEF Tokens, MarkerChars

\* _shrink_or_drop: all of it, or exactly the excess; the marker eats into what
\* is counted as freed.
LEMMA Shrunk ==
  ASSUME NEW L, <<>> \in L, NEW s \in Piece(L), ~s.marked, NEW e \in Nat, e > 0
  PROVE  LET r == ShrinkOrDrop(s, e)
             t == Tokens(s.shown)
         IN  /\ r.section \in Piece(L)
             /\ \/ /\ t <= e /\ r.section.shown = 0 /\ ~r.section.marked /\ r.freed = t
                \/ /\ e < t /\ Tokens(r.section.shown) = t - e /\ r.section.marked
                   /\ r.freed = IF e > 9 THEN e - 9 ELSE 0
<1> DEFINE t == Tokens(s.shown)
           cut == [s EXCEPT !.shown = 4 * (t - e), !.marked = TRUE]
           gone == [s EXCEPT !.lines = <<>>, !.shown = 0, !.marked = FALSE]
           r == ShrinkOrDrop(s, e)
<1>1. /\ s.shown \in Nat /\ s.marked = FALSE /\ SectionTokens(s) = t
      /\ t \in Nat /\ s.shown <= 4 * t /\ 4 * t <= s.shown + 3
  <2>1. s.shown \in Nat /\ s.marked = FALSE
    BY DEF Piece
  <2>2. t \in Nat /\ s.shown <= 4 * t /\ 4 * t <= s.shown + 3
    BY <2>1, TokensAre
  <2>3. SectionTokens(s) = t
    BY <2>1 DEF SectionTokens
  <2> QED BY <2>1, <2>2, <2>3
<1>2. CASE t <= e
  <2>1. r = [section |-> gone, freed |-> t]
    BY <1>1, <1>2 DEF ShrinkOrDrop
  <2>2. gone \in Piece(L) /\ gone.shown = 0 /\ gone.marked = FALSE
    BY DEF Piece
  <2> HIDE DEF gone, r, t
  <2>3. r.section = gone /\ r.freed = t
    BY <2>1
  <2>4. /\ r.section \in Piece(L)
        /\ t <= e /\ r.section.shown = 0 /\ ~r.section.marked /\ r.freed = t
    BY <1>2, <2>2, <2>3
  <2> QED BY <2>4 DEF r, t
<1>3. CASE e < t
  <2>1. t - e \in Nat /\ 4 * (t - e) \in Nat /\ 4 * (t - e) < s.shown
    BY <1>1, <1>3
  <2>2. /\ cut \in Piece(L) /\ cut.shown = 4 * (t - e) /\ cut.marked = TRUE
    <3> HIDE DEF t
    <3> QED BY <2>1 DEF Piece
  <2>3. SectionTokens(cut) = t - e + 9 /\ Tokens(cut.shown) = t - e
    <3>1. Tokens(4 * (t - e)) = t - e /\ Tokens(4 * (t - e) + MarkerChars) = t - e + 9
      <4>1. PICK d \in Nat : d = t - e
        BY <2>1
      <4> QED BY <4>1, TokensOfWhole
    <3> HIDE DEF t, cut
    <3> QED BY <2>2, <3>1 DEF SectionTokens
  <2>4. r = [section |-> cut, freed |-> IF t - e + 9 < t THEN t - (t - e + 9) ELSE 0]
    BY <1>1, <1>3, <2>1, <2>3 DEF ShrinkOrDrop
  <2>5. (IF t - e + 9 < t THEN t - (t - e + 9) ELSE 0) = IF e > 9 THEN e - 9 ELSE 0
    BY <1>1
  <2> HIDE DEF cut, r, t
  <2>6. r.section = cut /\ r.freed = IF e > 9 THEN e - 9 ELSE 0
    BY <2>4, <2>5
  <2>7. /\ r.section \in Piece(L)
        /\ e < t /\ Tokens(r.section.shown) = t - e /\ r.section.marked
        /\ r.freed = IF e > 9 THEN e - 9 ELSE 0
    BY <1>3, <2>2, <2>3, <2>6
  <2> QED BY <2>7 DEF r, t
<1> QED BY <1>1, <1>2, <1>3

\* One round: what becomes of a section a, and of the total.
Kept(a, b, T, U) == T <= MaxTokens /\ b = a /\ U = T
Gone(a, b, T, U) ==
    /\ T - MaxTokens >= Tokens(a.shown) /\ T > MaxTokens
    /\ b.shown = 0 /\ U = T - Tokens(a.shown)
Cut(a, b, T, U) ==
    /\ T - MaxTokens < Tokens(a.shown) /\ T > MaxTokens
    /\ Tokens(b.shown) = Tokens(a.shown) - (T - MaxTokens) /\ b.marked
    /\ U = T - IF T - MaxTokens > 9 THEN T - MaxTokens - 9 ELSE 0
Round(a, b, T, U) == Kept(a, b, T, U) \/ Gone(a, b, T, U) \/ Cut(a, b, T, U)

LEMMA TrimRound ==
  ASSUME NEW L, <<>> \in L, NEW n \in SectionSet,
         NEW acc, acc.sections \in [SectionSet -> Piece(L)], acc.total \in Nat,
         ~acc.sections[n].marked
  PROVE  LET after == Trim(acc, n)
         IN  /\ after.sections \in [SectionSet -> Piece(L)]
             /\ after.total \in Nat
             /\ \A m \in SectionSet \ {n} : after.sections[m] = acc.sections[m]
             /\ Round(acc.sections[n], after.sections[n], acc.total, after.total)
             /\ acc.total <= MaxTokens => after = acc
<1> DEFINE s == acc.sections[n]
           T == acc.total
           e == T - MaxTokens
           r == ShrinkOrDrop(s, e)
           after == Trim(acc, n)
<1>0. MaxTokens \in Nat
  BY BudgetAssumption
<1>1. CASE T <= MaxTokens
  <2>1. after = acc
    BY <1>1 DEF Trim
  <2>2. Round(s, acc.sections[n], T, acc.total)
    BY <1>1 DEF Round, Kept
  <2> QED BY <2>1, <2>2
<1>2. CASE T > MaxTokens
  <2>1. e \in Nat /\ e > 0 /\ s \in Piece(L) /\ ~s.marked
    BY <1>0, <1>2
  <2>2. /\ r.section \in Piece(L)
        /\ \/ /\ Tokens(s.shown) <= e /\ r.section.shown = 0 /\ r.freed = Tokens(s.shown)
           \/ /\ e < Tokens(s.shown) /\ Tokens(r.section.shown) = Tokens(s.shown) - e
              /\ r.section.marked
              /\ r.freed = IF e > 9 THEN e - 9 ELSE 0
    <3>1. PICK x : x = e
      OBVIOUS
    <3>2. PICK y \in Piece(L) : y = s
      BY <2>1
    <3>3. x \in Nat /\ x > 0 /\ ~y.marked
      BY <2>1, <3>1, <3>2
    <3> QED BY <3>1, <3>2, <3>3, Shrunk
  <2>3. after = [sections |-> [acc.sections EXCEPT ![n] = r.section], total |-> T - r.freed]
    BY <1>0, <1>2 DEF Trim
  <2>4. Tokens(s.shown) \in Nat
    BY <2>1, TokensAre DEF Piece
  <2>5. T - r.freed \in Nat
    BY <1>0, <1>2, <2>1, <2>2, <2>4
  <2> HIDE DEF r, after
  <2>6. /\ after.sections \in [SectionSet -> Piece(L)] /\ after.total = T - r.freed
        /\ after.sections[n] = r.section
        /\ \A m \in SectionSet \ {n} : after.sections[m] = acc.sections[m]
    BY <2>2, <2>3
  <2>7. Round(s, r.section, T, T - r.freed)
    BY <1>0, <1>2, <2>1, <2>2, <2>4, <2>5 DEF Round, Gone, Cut
  <2>8. ~ (acc.total <= MaxTokens)
    BY <1>0, <1>2
  <2> QED BY <2>5, <2>6, <2>7, <2>8 DEF after
<1> QED BY <1>0, <1>1, <1>2

\* The same in numbers: t tokens before, w after, the total going from T to U.
Paid(t, w, T, U) ==
    \/ T <= MaxTokens /\ w = t /\ U = T
    \/ T > MaxTokens /\ T - MaxTokens >= t /\ w = 0 /\ U = T - t
    \/ /\ T > MaxTokens /\ T - MaxTokens < t /\ w = t - (T - MaxTokens)
       /\ U = T - IF T - MaxTokens > 9 THEN T - MaxTokens - 9 ELSE 0

LEMMA RoundPays ==
  ASSUME NEW L, NEW a \in Piece(L), NEW b \in Piece(L), NEW T \in Nat, NEW U \in Nat,
         Round(a, b, T, U)
  PROVE  Paid(Tokens(a.shown), Tokens(b.shown), T, U)
<1>1. Tokens(a.shown) \in Nat /\ Tokens(0) = 0
  <2>1. a.shown \in Nat
    BY DEF Piece
  <2>2. Tokens(0) = 0
    BY DEF Tokens
  <2> QED BY <2>1, <2>2, TokensAre
<1> QED BY <1>1, BudgetAssumption DEF Round, Kept, Gone, Cut, Paid

\* Once a section was cut, nine tokens at most are still looked for.
LEMMA PaidInOrder ==
  ASSUME NEW t \in Nat, NEW w \in Nat, NEW T \in Nat, NEW U \in Nat, Paid(t, w, T, U)
  PROVE  /\ w <= t /\ U <= T
         /\ w = 0 \/ U <= MaxTokens + 9
         /\ T <= MaxTokens + 9 => t - w <= 9
         /\ t - w > 9 => T > MaxTokens + 9
BY BudgetAssumption DEF Paid

LEMMA AllPaid ==
  ASSUME NEW R \in Nat, NEW t1 \in Nat, NEW t2 \in Nat, NEW t3 \in Nat, NEW t4 \in Nat,
         NEW w1 \in Nat, NEW w2 \in Nat, NEW w3 \in Nat, NEW w4 \in Nat,
         NEW T0 \in Nat, NEW T1 \in Nat, NEW T2 \in Nat, NEW T3 \in Nat, NEW T4 \in Nat,
         T0 = R + t1 + t2 + t3 + t4,
         Paid(t1, w1, T0, T1), Paid(t2, w2, T1, T2), Paid(t3, w3, T2, T3), Paid(t4, w4, T3, T4),
         R <= MaxTokens
  PROVE  R + w1 + w2 + w3 + w4 <= MaxTokens
<1>1. MaxTokens \in Nat
  BY BudgetAssumption
<1>2. R + w1 + t2 + t3 + t4 <= MaxTokens \/ R + w1 + t2 + t3 + t4 = T1
  BY <1>1 DEF Paid
<1>3. R + w1 + w2 + t3 + t4 <= MaxTokens \/ R + w1 + w2 + t3 + t4 = T2
  BY <1>1, <1>2, PaidInOrder DEF Paid
<1>4. R + w1 + w2 + w3 + t4 <= MaxTokens \/ R + w1 + w2 + w3 + t4 = T3
  BY <1>1, <1>3, PaidInOrder DEF Paid
<1>5. R + w1 + w2 + w3 + w4 <= MaxTokens \/ R + w1 + w2 + w3 + w4 = T4
  BY <1>1, <1>4, PaidInOrder DEF Paid
<1>6. CASE T4 <= MaxTokens
  BY <1>1, <1>5, <1>6
<1>7. CASE T4 > MaxTokens
  <2>1. T3 > MaxTokens /\ T2 > MaxTokens /\ T1 > MaxTokens /\ T0 > MaxTokens
    BY <1>1, <1>7, PaidInOrder
  <2>2. CASE w1 = 0 /\ w2 = 0 /\ w3 = 0 /\ w4 = 0
    BY <1>1, <2>2
  <2>3. CASE w1 # 0
    BY <1>1, <2>1, <2>3, PaidInOrder DEF Paid
  <2>4. CASE w2 # 0
    BY <1>1, <1>2, <2>1, <2>4, PaidInOrder DEF Paid
  <2>5. CASE w3 # 0
    BY <1>1, <1>3, <2>1, <2>5, PaidInOrder DEF Paid
  <2>6. CASE w4 # 0
    BY <1>1, <1>4, <2>1, <2>6, PaidInOrder DEF Paid
  <2> QED BY <2>2, <2>3, <2>4, <2>5, <2>6
<1> QED BY <1>1, <1>6, <1>7

\* The four rounds in a row.
Rounds(built, s, T0, T1, T2, T3, T4) ==
    /\ Round(built["retrieved_examples"], s["retrieved_examples"], T0, T1)
    /\ Round(built["schema_context"], s["schema_context"], T1, T2)
    /\ Round(built["relationship"], s["relationship"], T2, T3)
    /\ Round(built["business_context"], s["business_context"], T3, T4)

LEMMA EnforceIsFourRounds ==
  ASSUME NEW L, <<>> \in L, NEW built \in [SectionSet -> Piece(L)],
         \A n \in SectionSet : ~built[n].marked, Total(built) \in Nat
  PROVE  /\ Enforce(built) \in [SectionSet -> Piece(L)]
         /\ \A n \in Required : Enforce(built)[n] = built[n]
         /\ Total(built) <= MaxTokens => Enforce(built) = built
         /\ \E T1, T2, T3, T4 \in Nat : Rounds(built, Enforce(built), Total(built), T1, T2, T3, T4)
<1> DEFINE a0 == [sections |-> built, total |-> Total(built)]
           a1 == Trim(a0, "retrieved_examples")
           a2 == Trim(a1, "schema_context")
           a3 == Trim(a2, "relationship")
           a4 == Trim(a3, "business_context")
           S == [SectionSet -> Piece(L)]
<1>1. Enforce(built) = a4.sections
  BY DEF Enforce, TrimFour, TrimOrder
<1>2. /\ {"retrieved_examples", "schema_context", "relationship", "business_context"} \subseteq SectionSet
      /\ Required \subseteq SectionSet
  BY DEF SectionSet, Required
<1> HIDE DEF S
<1>3. a0.sections = built /\ a0.total = Total(built) /\ a0.sections \in S
  BY DEF S
<1> HIDE DEF a0
<1>4. /\ a1.sections \in S /\ a1.total \in Nat
      /\ \A m \in SectionSet \ {"retrieved_examples"} : a1.sections[m] = built[m]
      /\ Round(built["retrieved_examples"], a1.sections["retrieved_examples"], a0.total, a1.total)
      /\ a0.total <= MaxTokens => a1 = a0
  <2>1. PICK n \in SectionSet : n = "retrieved_examples"
    BY <1>2
  <2>2. a0.sections \in [SectionSet -> Piece(L)] /\ a0.total \in Nat /\ ~a0.sections[n].marked
    BY <1>3 DEF S
  <2> QED BY <1>3, <2>1, <2>2, TrimRound DEF S
<1> HIDE DEF a1
<1>5. /\ a2.sections \in S /\ a2.total \in Nat
      /\ \A m \in SectionSet \ {"schema_context"} : a2.sections[m] = a1.sections[m]
      /\ Round(a1.sections["schema_context"], a2.sections["schema_context"], a1.total, a2.total)
      /\ a1.total <= MaxTokens => a2 = a1
  <2>1. PICK n \in SectionSet : n = "schema_context"
    BY <1>2
  <2>2. a1.sections \in [SectionSet -> Piece(L)] /\ a1.total \in Nat /\ ~a1.sections[n].marked
    BY <1>4, <2>1 DEF S
  <2> QED BY <2>1, <2>2, TrimRound DEF S
<1> HIDE DEF a2
<1>6. /\ a3.sections \in S /\ a3.total \in Nat
      /\ \A m \in SectionSet \ {"relationship"} : a3.sections[m] = a2.sections[m]
      /\ Round(a2.sections["relationship"], a3.sections["relationship"], a2.total, a3.total)
      /\ a2.total <= MaxTokens => a3 = a2
  <2>1. PICK n \in SectionSet : n = "relationship"
    BY <1>2
  <2>2. a2.sections \in [SectionSet -> Piece(L)] /\ a2.total \in Nat /\ ~a2.sections[n].marked
    BY <1>4, <1>5, <2>1 DEF S
  <2> QED BY <2>1, <2>2, TrimRound DEF S
<1> HIDE DEF a3
<1>7. /\ a4.sections \in S /\ a4.total \in Nat
      /\ \A m \in SectionSet \ {"business_context"} : a4.sections[m] = a3.sections[m]
      /\ Round(a3.sections["business_context"], a4.sections["business_context"], a3.total, a4.total)
      /\ a3.total <= MaxTokens => a4 = a3
  <2>1. PICK n \in SectionSet : n = "business_context"
    BY <1>2
  <2>2. a3.sections \in [SectionSet -> Piece(L)] /\ a3.total \in Nat /\ ~a3.sections[n].marked
    BY <1>4, <1>5, <1>6, <2>1 DEF S
  <2> QED BY <2>1, <2>2, TrimRound DEF S
<1> HIDE DEF a4
<1>8. \A n \in Required : a4.sections[n] = built[n]
  BY <1>2, <1>4, <1>5, <1>6, <1>7 DEF Required
<1>9. Total(built) <= MaxTokens => a4.sections = built
  BY <1>3, <1>4, <1>5, <1>6, <1>7
<1>10. Rounds(built, a4.sections, Total(built), a1.total, a2.total, a3.total, a4.total)
  <2>1. /\ a1.sections["retrieved_examples"] = a4.sections["retrieved_examples"]
        /\ a1.sections["schema_context"] = built["schema_context"]
        /\ a2.sections["schema_context"] = a4.sections["schema_context"]
        /\ a2.sections["relationship"] = built["relationship"]
        /\ a3.sections["relationship"] = a4.sections["relationship"]
        /\ a3.sections["business_context"] = built["business_context"]
    BY <1>2, <1>4, <1>5, <1>6, <1>7
  <2> QED BY <1>3, <1>4, <1>5, <1>6, <1>7, <2>1 DEF Rounds
<1> QED BY <1>1, <1>4, <1>5, <1>6, <1>7, <1>8, <1>9, <1>10 DEF S

LEMMA TotalIs ==
  ASSUME NEW L, NEW s \in [SectionSet -> Piece(L)], \A n \in SectionSet : ~s[n].marked
  PROVE  /\ \A n \in SectionSet : s[n].shown \in Nat /\ Tokens(s[n].shown) \in Nat
                                  /\ SectionTokens(s[n]) = Tokens(s[n].shown)
         /\ RequiredTotal(s) \in Nat /\ Total(s) \in Nat
         /\ Total(s) = RequiredTotal(s) + Tokens(s["retrieved_examples"].shown)
                       + Tokens(s["schema_context"].shown) + Tokens(s["relationship"].shown)
                       + Tokens(s["business_context"].shown)
<1>1. ASSUME NEW n \in SectionSet
      PROVE  s[n].shown \in Nat /\ Tokens(s[n].shown) \in Nat
             /\ SectionTokens(s[n]) = Tokens(s[n].shown)
  <2>1. s[n].shown \in Nat /\ s[n].marked = FALSE
    BY DEF Piece
  <2>2. Tokens(s[n].shown) \in Nat
    BY <2>1, TokensAre
  <2>3. SectionTokens(s[n]) = Tokens(s[n].shown)
    BY <2>1 DEF SectionTokens
  <2> QED BY <2>1, <2>2, <2>3
<1> QED BY <1>1 DEF RequiredTotal, Total, SectionSet

\* Whatever the sections, the budget is taken out of them in order: nothing while
\* they fit, the required ones never, something only when all before are gone or
\* cut, more than a marker's length only when all before are gone; and what is left fits, the markers aside, whenever the
\* required ones do (PromptBudgetManager.enforce).
THEOREM BudgetTrimsInOrder ==
  ASSUME NEW L, <<>> \in L, NEW built \in [SectionSet -> Piece(L)],
         \A n \in SectionSet : ~built[n].marked
  PROVE  TrimmedInOrder(built, Enforce(built))
<1> DEFINE s == Enforce(built)
           t(n) == Tokens(built[n].shown)
           w(n) == Tokens(s[n].shown)
           R == RequiredTotal(built)
           bare == [n \in DOMAIN s |-> [s[n] EXCEPT !.marked = FALSE]]
<1>1. /\ \A n \in SectionSet : t(n) \in Nat /\ SectionTokens(built[n]) = t(n)
      /\ R \in Nat /\ Total(built) \in Nat
      /\ Total(built) = R + t("retrieved_examples") + t("schema_context") + t("relationship")
                        + t("business_context")
  BY TotalIs
<1>2. /\ s \in [SectionSet -> Piece(L)]
      /\ \A n \in Required : s[n] = built[n]
      /\ Total(built) <= MaxTokens => s = built
  BY <1>1, EnforceIsFourRounds
<1>3. PICK T1, T2, T3, T4 \in Nat : Rounds(built, s, Total(built), T1, T2, T3, T4)
  BY <1>1, EnforceIsFourRounds
<1> HIDE DEF s
<1>4. \A n \in SectionSet : /\ w(n) \in Nat /\ s[n] \in Piece(L) /\ s[n].shown \in Nat
                            /\ w(n) = 0 => s[n].shown = 0
  <2> TAKE n \in SectionSet
  <2>1. s[n] \in Piece(L) /\ s[n].shown \in Nat
    BY <1>2 DEF Piece
  <2>2. PICK c \in Nat : c = s[n].shown
    BY <2>1
  <2>3. Tokens(c) \in Nat /\ c <= 4 * Tokens(c)
    BY TokensAre
  <2>4. w(n) \in Nat /\ (w(n) = 0 => s[n].shown = 0)
    BY <2>2, <2>3
  <2> QED BY <2>1, <2>4
<1>5. /\ Paid(t("retrieved_examples"), w("retrieved_examples"), Total(built), T1)
      /\ Paid(t("schema_context"), w("schema_context"), T1, T2)
      /\ Paid(t("relationship"), w("relationship"), T2, T3)
      /\ Paid(t("business_context"), w("business_context"), T3, T4)
  <2>1. ASSUME NEW n \in SectionSet, NEW T \in Nat, NEW U \in Nat, Round(built[n], s[n], T, U)
        PROVE  Paid(t(n), w(n), T, U)
    BY <1>4, <2>1, RoundPays
  <2> HIDE DEF t, w
  <2> QED BY <1>1, <1>3, <2>1 DEF Rounds, SectionSet
<1>6. MaxTokens \in Nat
  BY BudgetAssumption
<1>7. \A i, j \in DOMAIN TrimOrder :
        i < j /\ Lost(built[TrimOrder[j]], s[TrimOrder[j]]) > Tokens(MarkerChars) =>
          s[TrimOrder[i]].shown = 0
  <2>1. Tokens(MarkerChars) = 9
    BY TokensOfWhole
  <2>2. \A n \in SectionSet : Lost(built[n], s[n]) = t(n) - w(n)
    BY <1>1 DEF Lost
  <2> HIDE DEF t, w
  <2>3. /\ T1 <= Total(built) /\ T2 <= T1 /\ T3 <= T2
        /\ w("retrieved_examples") = 0 \/ T1 <= MaxTokens + 9
        /\ w("schema_context") = 0 \/ T2 <= MaxTokens + 9
        /\ w("relationship") = 0 \/ T3 <= MaxTokens + 9
        /\ t("schema_context") - w("schema_context") > 9 => T1 > MaxTokens + 9
        /\ t("relationship") - w("relationship") > 9 => T2 > MaxTokens + 9
        /\ t("business_context") - w("business_context") > 9 => T3 > MaxTokens + 9
    <3>1. /\ t("retrieved_examples") \in Nat /\ w("retrieved_examples") \in Nat
          /\ t("schema_context") \in Nat /\ w("schema_context") \in Nat
          /\ t("relationship") \in Nat /\ w("relationship") \in Nat
          /\ t("business_context") \in Nat /\ w("business_context") \in Nat
      BY <1>1, <1>4 DEF SectionSet
    <3>2. /\ T1 <= Total(built)
          /\ w("retrieved_examples") = 0 \/ T1 <= MaxTokens + 9
      BY <1>1, <1>5, <3>1, PaidInOrder
    <3>3. /\ T2 <= T1
          /\ w("schema_context") = 0 \/ T2 <= MaxTokens + 9
          /\ t("schema_context") - w("schema_context") > 9 => T1 > MaxTokens + 9
      BY <1>5, <3>1, PaidInOrder
    <3>4. /\ T3 <= T2
          /\ w("relationship") = 0 \/ T3 <= MaxTokens + 9
          /\ t("relationship") - w("relationship") > 9 => T2 > MaxTokens + 9
      BY <1>5, <3>1, PaidInOrder
    <3>5. t("business_context") - w("business_context") > 9 => T3 > MaxTokens + 9
      BY <1>5, <3>1, PaidInOrder
    <3> QED BY <3>2, <3>3, <3>4, <3>5
  <2>4. /\ t("schema_context") - w("schema_context") > 9 => w("retrieved_examples") = 0
        /\ t("relationship") - w("relationship") > 9 =>
             w("retrieved_examples") = 0 /\ w("schema_context") = 0
        /\ t("business_context") - w("business_context") > 9 =>
             w("retrieved_examples") = 0 /\ w("schema_context") = 0 /\ w("relationship") = 0
    BY <1>1, <1>6, <2>3
  <2>5. DOMAIN TrimOrder = {1, 2, 3, 4} /\ TrimOrder[1] = "retrieved_examples"
        /\ TrimOrder[2] = "schema_context" /\ TrimOrder[3] = "relationship"
        /\ TrimOrder[4] = "business_context"
    BY DEF TrimOrder
  <2>6. /\ s["retrieved_examples"].shown = 0 \/ w("retrieved_examples") # 0
        /\ s["schema_context"].shown = 0 \/ w("schema_context") # 0
        /\ s["relationship"].shown = 0 \/ w("relationship") # 0
    BY <1>4 DEF SectionSet
  <2>7. /\ Lost(built["schema_context"], s["schema_context"]) = t("schema_context") - w("schema_context")
        /\ Lost(built["relationship"], s["relationship"]) = t("relationship") - w("relationship")
        /\ Lost(built["business_context"], s["business_context"])
             = t("business_context") - w("business_context")
    BY <2>2 DEF SectionSet
  <2> QED BY <2>1, <2>4, <2>5, <2>6, <2>7
<1>10. \A i, j \in DOMAIN TrimOrder :
        i < j /\ s[TrimOrder[j]] # built[TrimOrder[j]] =>
          s[TrimOrder[i]].shown = 0 \/ s[TrimOrder[i]].marked
  <2> DEFINE Done(n) == s[n].shown = 0 \/ s[n].marked
  <2>1. ASSUME NEW n \in SectionSet, NEW T \in Nat, NEW U \in Nat, Round(built[n], s[n], T, U)
        PROVE  /\ s[n] # built[n] => T > MaxTokens
               /\ T > MaxTokens => Done(n)
               /\ U <= T
    <3>1. Paid(t(n), w(n), T, U)
      BY <1>4, <2>1, RoundPays
    <3>2. U <= T
      BY <1>1, <1>4, <3>1, PaidInOrder
    <3>3. s[n] # built[n] => T > MaxTokens
      BY <2>1 DEF Round, Kept, Gone, Cut
    <3>4. T > MaxTokens => Done(n)
      BY <1>6, <2>1 DEF Round, Kept, Gone, Cut
    <3> QED BY <3>2, <3>3, <3>4
  <2>2. /\ s["schema_context"] # built["schema_context"] => T1 > MaxTokens
        /\ s["relationship"] # built["relationship"] => T2 > MaxTokens
        /\ s["business_context"] # built["business_context"] => T3 > MaxTokens
        /\ Total(built) > MaxTokens => Done("retrieved_examples")
        /\ T1 > MaxTokens => Done("schema_context")
        /\ T2 > MaxTokens => Done("relationship")
        /\ T1 <= Total(built) /\ T2 <= T1 /\ T3 <= T2
    <3> HIDE DEF Done, t, w
    <3> QED BY <1>1, <1>3, <2>1 DEF Rounds, SectionSet
  <2>3. DOMAIN TrimOrder = {1, 2, 3, 4} /\ TrimOrder[1] = "retrieved_examples"
        /\ TrimOrder[2] = "schema_context" /\ TrimOrder[3] = "relationship"
        /\ TrimOrder[4] = "business_context"
    BY DEF TrimOrder
  <2> HIDE DEF Done
  <2>4. \A i, j \in DOMAIN TrimOrder :
          i < j /\ s[TrimOrder[j]] # built[TrimOrder[j]] => Done(TrimOrder[i])
    BY <1>1, <1>6, <2>2, <2>3
  <2> QED BY <2>4 DEF Done
<1>8. ASSUME R <= MaxTokens PROVE Total(bare) <= MaxTokens
  <2>1. R + w("retrieved_examples") + w("schema_context") + w("relationship")
        + w("business_context") <= MaxTokens
    <3>1. {"retrieved_examples", "schema_context", "relationship", "business_context"} \subseteq SectionSet
      BY DEF SectionSet
    <3> HIDE DEF t, w, R
    <3> QED BY <1>1, <1>4, <1>5, <1>8, <3>1, AllPaid
  <2>2. bare \in [SectionSet -> Piece(L)]
    BY <1>2, <1>4 DEF Piece
  <2>3. \A n \in SectionSet : ~bare[n].marked /\ bare[n].shown = s[n].shown
    BY <1>2, <1>4 DEF Piece
  <2> HIDE DEF bare
  <2>4. /\ Total(bare) = RequiredTotal(bare) + w("retrieved_examples") + w("schema_context")
                         + w("relationship") + w("business_context")
        /\ \A n \in SectionSet : SectionTokens(bare[n]) = w(n)
    BY <2>2, <2>3, TotalIs DEF SectionSet
  <2>5. \A n \in Required : SectionTokens(bare[n]) = SectionTokens(built[n])
    BY <1>1, <1>2, <2>4 DEF Required, SectionSet
  <2>6. RequiredTotal(bare) = R
    BY <2>5 DEF RequiredTotal, Required
  <2> QED BY <2>1, <2>4, <2>6
<1>9. TrimmedInOrder(built, s)
  BY <1>2, <1>7, <1>8, <1>10 DEF TrimmedInOrder
<1> QED BY <1>9 DEF s

----------------------------------------------------------------------------
(* Every request.                                                          *)

LEMMA BundlesAreLinked ==
  ASSUME IInv, NEW r \in Bundled
  PROVE  Linked(req[r].bundle.linked) /\ req[r].bundle = Retrieve(<<>>, req[r].bundle.linked)
<1> DEFINE l == req[r].bundle.linked
<1>1. ColdLinked(l) /\ req[r].bundle = Retrieve(<<>>, l)
  BY DEF Bundled, IInv, RequestTrue
<1> HIDE DEF l
<1>2. l = Link(<<>>, l.context) /\ l.context = Parse(l.context.question)
      /\ l.context.question \in Seq(STRING)
  BY <1>1, QuestionsAssumption DEF ColdLinked, ColdContext
<1>3. Lists(Parse(l.context.question))
  BY <1>2, ParseMakesLists
<1>4. Linked(Link(<<>>, l.context))
  BY <1>2, <1>3, LinkMakesLinked
<1> QED BY <1>1, <1>2, <1>4 DEF l

\* For every dictionary, set of columns and question, the join edges of a request
\* reach all its tables from the first, each edge from a table already reached
\* (SchemaLinker._resolve_relationship_paths, RelationshipPathResolver.find_paths_from):
\* the schema is connected, so the search finds a path to each table, and
\* neither appending paths nor dropping repeated edges takes away an earlier one.
THEOREM JoinsAlwaysConnect == Spec => []JoinsConnect
<1>1. IInv => JoinsConnect
  <2> SUFFICES ASSUME IInv, NEW r \in Bundled
               PROVE  Connects(resolved_table_names(req[r].bundle.linked), req[r].bundle.linked.joins)
    BY DEF JoinsConnect, Connects, ReachedBy
  <2> QED BY BundlesAreLinked, JoinsOfLinked
<1> QED BY <1>1, Invariance, PTL

\* What is scored is finite, as the library is.
LEMMA ExamplesAreAList ==
  ASSUME NEW cache, NEW linked
  PROVE  IsList(Retrieve(cache, linked).examples)
<1> DEFINE rated(e) == [id |-> e.id, rank |-> e.order,
                        score |-> ScoreExample(linked, e, Features(cache, e))]
           scored == {rated(e) : e \in ToSet(Library)}
           N == Len(Library)
           f == [i \in 1..N |-> rated(Library[i])]
           examples == Retrieve(cache, linked).examples
<1>1. examples = Rank(scored)
  BY DEF Retrieve
<1>2. N \in Nat /\ DOMAIN Library = 1..N /\ TopK \in Nat
  <2>1. Library \in Seq(ToSet(Library)) /\ TopK \in Nat
    BY LibraryAssumption
  <2> DEFINE T == ToSet(Library)
  <2> HIDE DEF T
  <2>2. Library \in Seq(T)
    BY <2>1 DEF T
  <2> QED BY <2>1, <2>2
<1> HIDE DEF rated, N
<1>3. f \in Surjection(1..N, scored)
  <2>1. ToSet(Library) = {Library[i] : i \in 1..N}
    BY <1>2 DEF ToSet
  <2>2. f \in [1..N -> scored] /\ \A t \in scored : \E i \in 1..N : f[i] = t
    BY <2>1
  <2> HIDE DEF f, scored
  <2> QED BY <2>2 DEF Surjection
<1>4. IsFiniteSet(1..N)
  <2>1. 1 \in Int /\ N \in Int
    BY <1>2
  <2> QED BY <2>1, FS_Interval
<1> HIDE DEF f, scored
<1>5. Cardinality(scored) \in Nat
  BY <1>3, <1>4, FS_Surjection, FS_CardinalityType
<1>6. PICK n \in Nat : examples = [k \in 1..n |-> examples[k]]
  <2> DEFINE n == IF Cardinality(scored) < TopK THEN Cardinality(scored) ELSE TopK
  <2>1. n \in Nat
    BY <1>2, <1>5
  <2>2. examples = [k \in 1..n |-> examples[k]]
    BY <1>1 DEF Rank
  <2> HIDE DEF n
  <2> QED BY <2>1, <2>2
<1> HIDE DEF examples
<1>7. IsList(examples)
  BY <1>6, ListByLength
<1> QED BY <1>7 DEF examples

LEMMA SchemaLinesAreAList ==
  ASSUME NEW l, Linked(l)
  PROVE  IsList(SchemaLines(l))
<1> DEFINE columns == l.metrics \o l.dimensions \o l.filters \o l.sort
           ids(s) == [i \in DOMAIN s |-> <<s[i].table, s[i].column>>]
<1>1. IsList(l.entities) /\ IsList(columns)
  BY ListConcat DEF Linked, Resolved
<1>2. ASSUME NEW s, IsList(s) PROVE IsList(Distinct(ids(s)))
  <2>1. PICK f : f = ids(s)
    OBVIOUS
  <2>2. f = [i \in DOMAIN s |-> f[i]]
    BY <2>1
  <2>3. IsList(f)
    BY <1>2, <2>2, ListAlong
  <2> QED BY <2>1, <2>3, DistinctIsList
<1>3. SchemaLines(l) = Distinct(ids(l.entities)) \o Distinct(ids(columns))
  BY DEF SchemaLines
<1> HIDE DEF columns, ids
<1> QED BY <1>1, <1>2, <1>3, ListConcat

\* Every section a bundle is built into has a length.
LEMMA SectionsHaveLengths ==
  ASSUME NEW b, Linked(b.linked), b = Retrieve(<<>>, b.linked)
  PROVE  \A n \in SectionSet : BuildSections(b)[n].chars \in Nat
<1> DEFINE ids == [i \in DOMAIN b.examples |-> b.examples[i].id]
           schema == SchemaLines(b.linked)
<1>1. IsList(<<>>) /\ IsList(b.linked.context.concepts) /\ IsList(schema) /\ IsList(b.linked.joins)
  <2>1. IsList(<<>>)
    BY DEF IsList
  <2> QED BY <2>1, SchemaLinesAreAList, JoinsOfLinked DEF Linked, Lists
<1>2. IsList(ids)
  <2>1. IsList(b.examples)
    BY ExamplesAreAList
  <2>2. ids = [i \in DOMAIN b.examples |-> ids[i]]
    OBVIOUS
  <2> HIDE DEF ids
  <2> QED BY <2>1, <2>2, ListAlong
<1>3. ASSUME NEW n \in SectionSet, NEW lines, IsList(lines) PROVE Section(n, lines).chars \in Nat
  <2>1. FixedChars[n] \in Nat /\ LineChars[n] \in Nat
    <3>1. SectionSet = ToSet(SectionNames)
      BY DEF SectionSet, SectionNames, ToSet
    <3> QED BY <3>1, BudgetAssumption
  <2>2. Len(lines) \in Nat
    BY <1>3, ListIs
  <2>3. PICK x \in Nat, y \in Nat, z \in Nat : x = FixedChars[n] /\ y = LineChars[n] /\ z = Len(lines)
    BY <2>1, <2>2
  <2>4. Section(n, lines).chars = x + y * z
    BY <2>3 DEF Section
  <2> QED BY <2>4
<1> HIDE DEF ids, schema
<1>4. /\ BuildSections(b)["system"] = Section("system", <<>>)
      /\ BuildSections(b)["constraint"] = Section("constraint", <<>>)
      /\ BuildSections(b)["output_format"] = Section("output_format", <<>>)
      /\ BuildSections(b)["business_context"] = Section("business_context", b.linked.context.concepts)
      /\ BuildSections(b)["schema_context"] = Section("schema_context", schema)
      /\ BuildSections(b)["relationship"] = Section("relationship", b.linked.joins)
      /\ BuildSections(b)["retrieved_examples"] = Section("retrieved_examples", ids)
  BY DEF BuildSections, ids, schema
<1> QED BY <1>1, <1>2, <1>3, <1>4 DEF SectionSet

\* So it is for every prompt of every request, cached or not: whatever the question
\* and the catalogues, the sections built for it have a length, and the budget is
\* taken out of them in order.
THEOREM PromptsAreTrimmedInOrder == Spec => []TrimsInOrder
<1>1. IInv => TrimsInOrder
  <2> SUFFICES ASSUME IInv, NEW r \in Compiled
               PROVE  TrimmedInOrder(BuildSections(req[r].bundle), req[r].prompt.sections)
    BY DEF TrimsInOrder
  <2> DEFINE built == BuildSections(req[r].bundle)
             L == {built[n].lines : n \in SectionSet} \cup {<<>>}
  <2>1. req[r].prompt.sections = Enforce(built)
    <3>1. req[r].prompt = Prompt(req[r].bundle)
      BY DEF Compiled, IInv, RequestTrue
    <3> QED BY <3>1 DEF Prompt
  <2>2. /\ DOMAIN built = SectionSet
        /\ \A n \in SectionSet :
             \E lines : built[n] = Section(n, lines)
    BY DEF BuildSections, SectionSet
  <2>3. \A n \in SectionSet : built[n].chars \in Nat
    <3>1. r \in Bundled
      BY DEF Bundled, Compiled
    <3> QED BY <3>1, BundlesAreLinked, SectionsHaveLengths
  <2>4. built = [n \in SectionSet |-> built[n]]
    BY <2>2 DEF BuildSections, SectionSet
  <2> HIDE DEF built
  <2>5. \A n \in SectionSet : built[n] \in Piece(L) /\ ~built[n].marked
    <3> TAKE n \in SectionSet
    <3>1. PICK lines : built[n] = Section(n, lines)
      BY <2>2
    <3>2. PICK c : built[n] = [name |-> n, lines |-> lines, chars |-> c, shown |-> c, marked |-> FALSE]
      BY <3>1 DEF Section
    <3>3. c \in Nat /\ lines \in L
      BY <2>3, <3>2
    <3> HIDE DEF L
    <3> QED BY <3>2, <3>3 DEF Piece
  <2>6. built \in [SectionSet -> Piece(L)]
    <3> HIDE DEF L
    <3> QED BY <2>4, <2>5
  <2>7. <<>> \in L
    OBVIOUS
  <2>8. TrimmedInOrder(built, Enforce(built))
    <3> HIDE DEF L
    <3> QED BY <2>5, <2>6, <2>7, BudgetTrimsInOrder
  <2> QED BY <2>1, <2>8 DEF built
<1> QED BY <1>1, Invariance, PTL
=============================================================================
