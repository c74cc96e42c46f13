------------------------------- MODULE Pricing -------------------------------
(***************************************************************************)
(* pricing/pricing-table.ts: the price of a call, from a list of prices that *)
(* names most models differently from the logs.                              *)
(*                                                                         *)
(* The list is an object of a JSON file, shipped with a release of the app;  *)
(* the order of its entries matters.  A name is the sequence of its parts    *)
(* ("gpt", "5", "mini"): a provider's prefix and a keyword are parts.  Of the *)
(* six rates three are kept, those of the two cache writes and of reasoning  *)
(* are looked up like that of the cache read.                                *)
(***************************************************************************)
EXTENDS Naturals, SequencesExt

CONSTANTS Files,     \* price lists: sequences of a key and rates, which may be None
          Models,    \* names in the logs
          Prefix,    \* PROVIDER_PREFIXES, in order
          Alias,     \* SUPPLEMENTAL_PREFIXES, in order
          Keyword,   \* KEYWORDS, in order
          None

Rates   == [in : Nat \cup {None}, out : Nat \cup {None}, read : Nat \cup {None}]
Entries == [key : Seq(STRING), rate : Rates]

\* A file has an entry for a key once.
ASSUME PricingAssumption ==
  /\ None \notin Nat
  /\ \A f \in Files : f \in Seq(Entries) /\ \A i, j \in DOMAIN f : f[i].key = f[j].key => i = j
  /\ Models \subseteq Seq(STRING)
  /\ Prefix \in Seq(STRING) /\ Alias \in Seq(STRING) /\ Keyword \in Seq(STRING)

VARIABLES prices,  \* the entries of the release in use, by their place in the list
          bill     \* the last call and its cost; NoBill

priceVars == <<prices, bill>>

NoBill   == [none |-> TRUE]
FALLBACK == [in |-> 30, out |-> 150, read |-> 3]   \* in tenths
Or(rate, other) == IF rate = None THEN other ELSE rate

-----------------------------------------------------------------------------
\* An entry without the prices of input and output is left out.
BuildEntries(file) ==
  [i \in {j \in DOMAIN file : file[j].rate.in # None \/ file[j].rate.out # None} |->
     [file[i] EXCEPT !.rate.in = Or(@, 0), !.rate.out = Or(@, 0)]]

Listed(t, key)  == {i \in DOMAIN t : t[i].key = key}
Swept(t, model) == {i \in DOMAIN t : IsPrefix(t[i].key, model) \/ IsPrefix(model, t[i].key)}
SharingAny(t, word, model) == {i \in DOMAIN t : word \in Range(t[i].key) /\ t[i].rate.out > 0}
Sharing(t, word, model) ==
  IF word \in Range(model) THEN SharingAny(t, word, model) ELSE {}

\* price: the first entry of the first search that finds one; 0 when none does.
Searches(t, model) ==
  <<Listed(t, model)>>
  \o [p \in DOMAIN Prefix |-> Listed(t, <<Prefix[p]>> \o model)]
  \o <<Swept(t, model)>>
  \o [w \in DOMAIN Keyword |-> Sharing(t, Keyword[w], model)]
Hit(t, model) ==
  LET s == Searches(t, model)
      found == {n \in DOMAIN s : s[n] # {}}
  IN IF found = {} THEN 0 ELSE Min(s[Min(found)])

\* Rates a listed model lacks are taken from its names with a prefix, in order.
WithSupplementalAliases(t, model, rate) ==
  LET named == {a \in DOMAIN Alias : \E i \in Listed(t, <<Alias[a]>> \o model) : t[i].rate.read # None}
  IN IF rate.read # None \/ named = {} THEN rate
     ELSE [rate EXCEPT !.read = t[Min(Listed(t, <<Alias[Min(named)]>> \o model))].rate.read]

Price(t, model) ==
  LET i == Hit(t, model) IN
    IF i = 0 THEN FALLBACK
    ELSE IF t[i].key = model THEN WithSupplementalAliases(t, model, t[i].rate)
    ELSE t[i].rate

CostOf(t, call) ==
  IF call.local THEN 0
  ELSE LET r == Price(t, call.model) IN
         call.in * r.in + call.out * r.out + call.read * Or(r.read, 0)

-----------------------------------------------------------------------------
PriceInit == prices \in {BuildEntries(f) : f \in Files} /\ bill = NoBill

Bill ==
  /\ \E model \in Models, local \in BOOLEAN, in, out, read \in {0, 1} :
       LET call == [model |-> model, local |-> local, in |-> in, out |-> out, read |-> read] IN
         bill' = [call |-> call, cost |-> CostOf(prices, call)]
  /\ UNCHANGED prices

PriceNext == Bill

PriceSpec == PriceInit /\ [][PriceNext]_priceVars

-----------------------------------------------------------------------------
(* A model is related to its own name, with or without a prefix, to a name it  *)
(* continues or that continues it, and to the names that share a keyword.      *)
Related(t, model) ==
  {i \in DOMAIN t :
     \/ i \in Swept(t, model) \/ \E p \in Range(Prefix) \cup Range(Alias) : t[i].key = <<p>> \o model
     \/ Range(t[i].key) \cap Range(model) \cap Range(Keyword) # {}}

(* Answered output costs something, except of a local model and where a        *)
(* related entry has no price for it: "never silently emits $0".               *)
NeverSilentlyFree ==
  bill # NoBill /\ bill.call.out > 0 /\ bill.cost = 0 =>
    bill.call.local \/ \E i \in Related(prices, bill.call.model) : prices[i].rate.out = 0

(* The entries of other models have no part in the price, and a listed model   *)
(* is billed by its own rates wherever its entry stands.                       *)
OthersDoNotMatter ==
  bill # NoBill =>
    LET model == bill.call.model
        own   == Listed(prices, model)
        rest  == [i \in Related(prices, model) |-> prices[i]]
    IN /\ bill.cost = CostOf(rest, bill.call)
       /\ own # {} /\ ~bill.call.local =>
            \A i \in own : bill.call.read = 0 =>
              bill.cost = bill.call.in * prices[i].rate.in + bill.call.out * prices[i].rate.out

PricesSound == NeverSilentlyFree /\ OthersDoNotMatter
=============================================================================
