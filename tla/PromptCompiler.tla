--------------------------- MODULE PromptCompiler ---------------------------
(***************************************************************************)
(* The prompt compiler (querymind.prompt_compiler): seven sections are     *)
(* built from the linked question and the retrieved examples, trimmed to   *)
(* the token budget, assembled and cached.                                 *)
(*                                                                         *)
(* A section is what its lines are about, its size in characters and how   *)
(* many of those are still shown.  Wording is its length only.             *)
(***************************************************************************)
EXTENDS Retrieval

CONSTANTS FixedChars,   \* length of the fixed wording of each section
          LineChars,    \* length of one line of each section
          MaxTokens     \* PromptBudgetManager.max_tokens

Required == {"system", "constraint", "output_format"}

\* In the order of the template.
SectionNames == <<"system", "business_context", "schema_context", "relationship",
                  "retrieved_examples", "constraint", "output_format">>

ASSUME BudgetAssumption == /\ MaxTokens \in Nat \ {0}
                           /\ FixedChars \in [ToSet(SectionNames) -> Nat]
                           /\ LineChars \in [ToSet(SectionNames) -> Nat]

\* Lower is trimmed first; schema before relationships by position.
TrimOrder == <<"retrieved_examples", "schema_context", "relationship", "business_context">>

----------------------------------------------------------------------------
(* The section builders.                                                   *)

Section(name, lines) ==
    LET chars == FixedChars[name] + LineChars[name] * Len(lines)
    IN  [name |-> name, lines |-> lines, chars |-> chars, shown |-> chars, marked |-> FALSE]

\* Tables of the entities only, then the columns of metrics, dimensions,
\* filters and sort, each once.
SchemaLines(linked) ==
    LET columns == linked.metrics \o linked.dimensions \o linked.filters \o linked.sort
        ids(seq) == [i \in DOMAIN seq |-> <<seq[i].table, seq[i].column>>]
    IN  Distinct(ids(linked.entities)) \o Distinct(ids(columns))

BuildSections(bundle) ==
    LET linked == bundle.linked
        lines == [system |-> <<>>, constraint |-> <<>>, output_format |-> <<>>,
                  business_context |-> linked.context.concepts,
                  schema_context |-> SchemaLines(linked),
                  relationship |-> linked.joins,
                  retrieved_examples |-> [i \in DOMAIN bundle.examples |-> bundle.examples[i].id]]
    IN  [n \in DOMAIN lines |-> Section(n, lines[n])]

----------------------------------------------------------------------------
(* The token budget.                                                       *)

MarkerChars == 35       \* the truncation marker

Tokens(chars) == (chars + 3) \div 4
SectionTokens(s) == Tokens(s.shown + (IF s.marked THEN MarkerChars ELSE 0))
RequiredTotal(s) == SectionTokens(s["system"]) + SectionTokens(s["constraint"])
                    + SectionTokens(s["output_format"])
Total(s) == RequiredTotal(s) + SectionTokens(s["business_context"])
            + SectionTokens(s["schema_context"]) + SectionTokens(s["relationship"])
            + SectionTokens(s["retrieved_examples"])

\* Dropped when that is not enough; otherwise cut by the excess, and the marker
\* appended, which may make the section longer than it was: nothing is then
\* counted as freed.
ShrinkOrDrop(s, excess) ==
    LET tokens == SectionTokens(s)
        cut == [s EXCEPT !.shown = IF 4 * (tokens - excess) < @ THEN 4 * (tokens - excess) ELSE @,
                         !.marked = TRUE]
    IN  IF excess >= tokens
        THEN [section |-> [s EXCEPT !.lines = <<>>, !.shown = 0, !.marked = FALSE], freed |-> tokens]
        ELSE [section |-> cut,
              freed |-> IF SectionTokens(cut) < tokens THEN tokens - SectionTokens(cut) ELSE 0]

\* One round of the loop: nothing once the total fits.
Trim(acc, n) ==
    LET r == ShrinkOrDrop(acc.sections[n], acc.total - MaxTokens)
    IN  IF acc.total <= MaxTokens THEN acc
        ELSE [sections |-> [acc.sections EXCEPT ![n] = r.section], total |-> acc.total - r.freed]

TrimFour(sections, order) ==
    LET whole == [sections |-> sections, total |-> Total(sections)]
    IN  Trim(Trim(Trim(Trim(whole, order[1]), order[2]), order[3]), order[4]).sections

\* Mutant: the business context goes first.
EnforceReversed(sections) == TrimFour(sections, Reverse(TrimOrder))

Enforce(sections) == TrimFour(sections, TrimOrder)

----------------------------------------------------------------------------
(* Validation, statistics and the text.                                    *)

\* The rules that can fail on a compiled prompt: required sections are built
\* non-empty and never trimmed.
IsValid(sections) ==
    /\ Total(sections) <= MaxTokens
    /\ \A n \in Required : sections[n].shown > 0
    /\ IsInjective(sections["retrieved_examples"].lines)

Statistics(sections) ==
    [tokens |-> Total(sections),
     examples |-> Len(sections["retrieved_examples"].lines),
     objects |-> Len(sections["schema_context"].lines)]

Prompt(bundle) ==
    LET sections == Enforce(BuildSections(bundle))
    IN  [sections |-> sections, statistics |-> Statistics(sections)]

\* What the model is sent: the non-empty sections in template order.
AsText(prompt) ==
    LET shown == SelectSeq(SectionNames, LAMBDA n : prompt.sections[n].shown > 0)
    IN  [i \in DOMAIN shown |-> prompt.sections[shown[i]]]

----------------------------------------------------------------------------
(* PromptCompiler.compile: a cache keyed by everything the bundle holds;   *)
(* only a valid prompt is kept, an invalid one is returned all the same.   *)

BundleHash(bundle) == <<bundle.linked, bundle.examples>>

Compile(cache, bundle) ==
    IF BundleHash(bundle) \in DOMAIN cache THEN cache[BundleHash(bundle)] ELSE Prompt(bundle)

PromptsAfter(cache, bundle) ==
    IF BundleHash(bundle) \in DOMAIN cache \/ ~IsValid(Prompt(bundle).sections) THEN cache
    ELSE [h \in DOMAIN cache \cup {BundleHash(bundle)} |->
             IF h \in DOMAIN cache THEN cache[h] ELSE Prompt(bundle)]
=============================================================================
