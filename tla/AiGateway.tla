----------------------------- MODULE AiGateway -----------------------------
(***************************************************************************)
(* What the provider gateway decides about one request, as operators: the  *)
(* provider the registry selects, the providers a failover may try after   *)
(* it, the budget check before each of them, and the reasons that let a    *)
(* failed attempt move on.                                                 *)
(*                                                                         *)
(* Amounts are naturals and None an Option's absent value.  Prices are     *)
(* micros per Scale tokens (a million in the code), rounded up; the code's *)
(* saturation at 2^64 lies outside every instance.                         *)
(***************************************************************************)
EXTENDS Policy, SequencesExt

CONSTANTS
    Providers,   \* identifiers of registered providers
    Declared,    \* the registry's declared order, a sequence of them
    Order,       \* the configured fallback order, a sequence of some of them
    Local,       \* the providers whose kind is local
    Models,      \* per provider its manifest's models, a sequence
    Document,    \* the policy document the application booted with
    Window,      \* the window budget: limits on input, output and cost
    Scale,       \* MICROS_PER_MILLION_TOKENS
    None

ASSUME ProvidersAssumption ==
    /\ Declared \in Seq(Providers)
    /\ Order \in Seq(Providers)
    /\ \A i, j \in DOMAIN Order : i # j => Order[i] # Order[j]
ASSUME ModelsAssumption ==
    \A p \in Providers : Models[p] \in Seq({Models[p][i] : i \in DOMAIN Models[p]})
ASSUME ScaleAssumption == Scale \in Nat \ {0}

-----------------------------------------------------------------------------
(* The registry. *)

ModelCapabilityRequirement == [context : Nat \cup {None},
                               output : Nat \cup {None}, system : BOOLEAN]

Satisfies(m, need) ==
    /\ need.context # None => m.context >= need.context
    /\ need.output # None => m.maxOutput >= need.output
    /\ need.system => m.system

Means(selector, m) ==
    IF selector.kind = "explicit" THEN m.id = selector.model
                                  ELSE Satisfies(m, selector.need)

\* The models of provider p a selector can mean, by their place in the
\* manifest; the first is taken.
Matching(p, selector) == {i \in DOMAIN Models[p] : Means(selector, Models[p][i])}

Usable(p, selector) == Matching(p, selector) # {}

Selections(selector) ==
    [p \in {q \in Providers : Usable(q, selector)} |->
        [provider |-> p, model |-> Models[p][Min(Matching(p, selector))]]]

\* ProviderRegistry::select, None when the registry has no answer.
Select(selector) ==
    LET found == {i \in DOMAIN Declared :
                    /\ selector.kind = "explicit" =>
                          Declared[i] = selector.provider
                    /\ Usable(Declared[i], selector)}
    IN  IF found = {} THEN None ELSE Selections(selector)[Declared[Min(found)]]

\* A sequence filtered: its elements at the positions of a set, in their
\* order, by the rank of each position.
Rank(I, i) == Cardinality({j \in I : j <= i})
Nth(I, n) == CHOOSE i \in I : Rank(I, i) = n
Subsequence(s, I) == [n \in 1 .. Cardinality(I) |-> s[Nth(I, n)]]

\* The selected provider, then those of the fallback order at positions I.
Attempted(selector, I) ==
    LET listed == Subsequence(Order, I)
    IN  <<Select(selector)>>
          \o [n \in DOMAIN listed |-> Selections(selector)[listed[n]]]

\* Mutant: the fallback order is tried with the first provider still in it.
CandidatesAgain(selector) ==
    Attempted(selector, {i \in DOMAIN Order : Usable(Order[i], selector)})

\* Gateway::complete's attempts: the fallback order is tried without the
\* selected provider.
Candidates(selector) ==
    Attempted(selector,
        {i \in DOMAIN Order : /\ Order[i] # Select(selector).provider
                              /\ Usable(Order[i], selector)})

-----------------------------------------------------------------------------
(* The budget. *)

ModelUsage == [input : Nat, output : Nat, cost : Nat \cup {None}]

CostForTokens(tokens, price) == (tokens * price + Scale - 1) \div Scale

Priced(m) == m.inPrice # None /\ m.outPrice # None

EstimateCost(q, m) ==
    CostForTokens(q.input, m.inPrice)
        + CostForTokens(q.budget.output, m.outPrice)

Over(amount, limit) == limit # None /\ amount > limit

\* BudgetLedger::prepare: its checks in the order they are made, each with
\* the bound it refuses at.
BudgetChecks(q, m, used) ==
    LET unpriced(limit) == limit # None /\ ~Priced(m)
        costs(extra, limit) ==
            /\ limit # None
            /\ Priced(m)
            /\ Over(extra + EstimateCost(q, m), limit)
    IN  << <<"max_input_tokens", Over(q.input, q.budget.input)>>,
           <<"max_output_tokens",
               q.budget.output = 0 \/ q.budget.output > m.maxOutput>>,
           <<"unpriced_cost", unpriced(q.budget.cost)>>,
           <<"max_cost_micros", costs(0, q.budget.cost)>>,
           <<"window_input_tokens", Over(used.input + q.input, Window.input)>>,
           <<"window_output_tokens",
               Over(used.output + q.budget.output, Window.output)>>,
           <<"unpriced_cost",
               unpriced(Window.cost)
                   \/ (Window.cost # None /\ used.cost = None)>>,
           <<"window_cost_micros",
               used.cost # None /\ costs(used.cost, Window.cost)>> >>

Bounds == {"max_input_tokens", "max_output_tokens", "unpriced_cost",
           "max_cost_micros", "window_input_tokens", "window_output_tokens",
           "window_cost_micros"}

\* The bound that refuses the request, or None.
Refusal(q, m, used) ==
    LET checks == BudgetChecks(q, m, used)
        failed == {i \in DOMAIN checks : checks[i][2]}
    IN  IF failed = {} THEN None ELSE checks[Min(failed)][1]

-----------------------------------------------------------------------------
(* Policy and failover. *)

Destination(p) == IF p \in Local THEN "LocalModel" ELSE "HostedAi"

EgressAllowed(q, p) ==
    EvaluateEgress(Document, Verified(q.class, Destination(p))) = "Allowed"

ProviderErrorReason ==
    {"unreachable", "unauthorized", "model_unavailable", "rate_limited",
     "budget_exhausted", "malformed_response", "invalid_request",
     "deadline_exceeded", "cancelled"}

FailoverReason == {"unreachable", "rate_limited", "model_unavailable"}

\* validate_model_request and parse_data_class.
ValidRequest(q) ==
    /\ q.wellFormed
    /\ q.class \in DataClass
    /\ q.budget.output # 0
    /\ q.budget.input # 0
=============================================================================
