----------------------------- MODULE Catalogue -----------------------------
(***************************************************************************)
(* The price catalogue of one template: versioned tier rows that admins    *)
(* upsert, that two scripts seed and recompute from the video's duration,  *)
(* and that requests read, falling back to the rows of the template's      *)
(* family.  Quotes are priced from the duration.                           *)
(*                                                                         *)
(* Every transaction is READ COMMITTED and takes no lock.  An upsert reads *)
(* the current rows, then the highest versions, then inserts and commits;  *)
(* the UNIQUE key (template, tier, version) decides between two that chose *)
(* one version.  The script plans from one read and applies the plan in a  *)
(* later transaction.  No code disables a row, so the current row of a     *)
(* tier is its last.                                                       *)
(***************************************************************************)
EXTENDS Integers, Sequences, FiniteSets, FiniteSetsExt, SequencesExt, TLC

CONSTANTS
  Tiers,        \* the tiers of the catalogue
  Admins,       \* requests that upsert tiers
  Submissions,  \* payloads of upserts: tier -> price, surcharge, reference
  Durations,    \* seconds the script's CSV may give for the template
  Lines,        \* valid subtitle lines of a custom template's SRT
  LegacyPrices, \* tier -> price in the v1 table
  Family,       \* tier -> price in the family's current rows
  Multiplier,   \* the template's tier_multiplier: <<numerator, denominator>>
  MaxVersion,   \* bound on the versions of a tier
  None

Flash == "narration_flash"
Pro == "narration_pro"
Derivative == "derivative"

\* A recipe is the rates per minute, before and after the third, of its
\* subflows: the text, the cutting script, the composition.
Recipe(wenan) == << <<wenan, wenan>>, <<10, 6>>, <<7, 4>> >>
Recipes == [t \in {Flash, Pro, Derivative} |->
              Recipe(CASE t = Flash -> 2 [] t = Pro -> 6 [] t = Derivative -> 15)]
CustomRecipes == { Recipe(2), Recipe(6), <<<<13, 13>>>> \o Recipe(15) }

ASSUME TiersAssumption == {Flash, Pro} \subseteq Tiers /\ Tiers \subseteq DOMAIN Recipes
ASSUME BoundsAssumption ==
  Durations \union Lines \subseteq Nat /\ MaxVersion \in Nat \ {0} /\ None \notin Durations

\* Prices are what the shape of a payload and the columns of both tables allow.
Payloads == [price : Nat, surcharge : Nat \union {None}, reference : Nat]
ASSUME PricesAssumption ==
  /\ LegacyPrices \in [Tiers -> Nat]
  /\ DOMAIN Family \subseteq Tiers /\ \A t \in DOMAIN Family : Family[t] \in Nat
  /\ Multiplier \in (Nat \ {0}) \X (Nat \ {0})
  /\ \A s \in Submissions :
       DOMAIN s # {} /\ DOMAIN s \subseteq Tiers /\ s \in [DOMAIN s -> Payloads]
ASSUME WritersAssumption == Admins \intersect {"refresh", "seed"} = {}

VARIABLES
  template,  \* the row of pricing_template_v2
  entries,   \* tier -> its rows of pricing_catalog_v2_entry, by version
  upsert,    \* admin -> its request
  script,    \* the run of the refresh script
  accepted   \* tier and version -> the row an admin was told is stored

vars == <<template, entries, upsert, script, accepted>>

-----------------------------------------------------------------------------
(* Prices.  Decimals keep 28 significant digits: a number is n 300ths of a  *)
(* minute or a point, exactly, and e thirds of 10^-29 left by rounding.     *)

Number(n, e) == [n |-> n, e |-> e]

\* The last digit kept, in the unit of e.
Ulp(x) ==
  3 * 10 ^ Min({k \in 0 .. 5 : x.n < 30 * 10 ^ k \/ (x.n = 30 * 10 ^ k /\ x.e < 0)})

\* Rounded to that digit, a half to the even one.  A 300th is 10^27 units of e,
\* which leaves what 400000 leaves modulo 2 * u.
Kept(x) ==
  LET u == Ulp(x)
      cut == (400000 * (x.n % 3) + x.e) % (2 * u)
      rounded == IF 2 * cut <= u THEN 0 ELSE IF 2 * cut < 3 * u THEN u ELSE 2 * u
  IN Number(x.n, x.e + rounded - cut)

Times(x, k) == Kept(Number(x.n * k, x.e * k))
Plus(x, y) == Kept(Number(x.n + y.n, x.e + y.e))

\* The duration is divided by 60, the lines of an SRT by 25.
Minutes(n) == Kept(Number(n, 0))
OfSeconds(seconds) == 5 * seconds
OfLines(lines) == 12 * lines

\* The first three minutes cost one rate, the rest another.
Subtotal(rates, n) ==
  IF n <= 900 THEN Times(Minutes(n), rates[1])
  ELSE Plus(Times(Number(900, 0), rates[1]), Times(Number(n - 900, Minutes(n).e), rates[2]))

\* Only the total is rounded up to points, from what the decimals hold.
Ceil(x) == (x.n + 299) \div 300 + (IF x.n % 300 = 0 /\ x.e > 0 THEN 1 ELSE 0)
Unrounded(recipe, n) ==
  FoldLeft(LAMBDA sum, rates : Plus(sum, Subtotal(rates, n)), Number(0, 0), recipe)
Total(recipe, n) == Ceil(Unrounded(recipe, n))
SumOf(f) == SumFunction(f)

\* Mutant: the last row of the breakdown does not absorb the remainder.
BreakdownFloored(recipe, n) == [k \in DOMAIN recipe |-> Subtotal(recipe[k], n).n \div 300]

\* Every row is rounded down, past a float that drops the error, and the last
\* takes what is missing.
Breakdown(recipe, n) ==
  LET floored == [k \in DOMAIN recipe |-> Subtotal(recipe[k], n).n \div 300]
  IN [floored EXCEPT ![Len(recipe)] = @ + Total(recipe, n) - SumOf(floored)]

QuoteOf(recipe, n) ==
  [recipe |-> recipe, n |-> n, charge |-> Total(recipe, n), breakdown |-> Breakdown(recipe, n)]

\* Of an existing template the duration makes the price, for every tier; of a
\* custom one its subtitles, 25 lines a minute.
TierQuotes == [t \in Tiers |-> [s \in Durations |-> QuoteOf(Recipes[t], OfSeconds(s))]]
CustomQuotes == {QuoteOf(recipe, OfLines(lines)) : recipe \in CustomRecipes, lines \in Lines}

Formula(t, seconds) == TierQuotes[t][seconds].charge

\* A family price scaled by the multiplier, halves rounded up.
Scaled(x) == (2 * x * Multiplier[1] + Multiplier[2]) \div (2 * Multiplier[2])

-----------------------------------------------------------------------------

Row(price, surcharge, reference, version, by) ==
  [price |-> price, surcharge |-> surcharge, reference |-> reference, version |-> version, by |-> by]

Current == [t \in {u \in Tiers : entries[u] # <<>>} |-> entries[t][Len(entries[t])]]

\* No surcharge where there is no Flash to compare with.
SurchargeOf(t, price) ==
  IF t = Pro THEN price[Pro] - price[Flash] ELSE None

Resting == [pc |-> "idle"]

Init ==
  /\ template \in [known : {FALSE}, seconds : {None}] \union [known : {TRUE}, seconds : {None} \union Durations]
  /\ entries = [t \in Tiers |-> <<>>]
  /\ upsert = [a \in Admins |-> Resting]
  /\ script = Resting
  /\ accepted = <<>>

-----------------------------------------------------------------------------
(* PUT /pricing/catalog/<template>/tiers                                    *)

\* Mutant: the payload is validated on its own.
MergedAlone(s, current) == s

\* What is submitted wins over what is stored.
Merged(s, current) ==
  [t \in DOMAIN s \union DOMAIN current |-> IF t \in DOMAIN s THEN s[t] ELSE current[t]]

\* A Pro submitted without its surcharge gets the difference to the Flash of
\* the merged view.
Derived(s, current) ==
  IF Pro \in DOMAIN s /\ s[Pro].surcharge = None
    THEN [s EXCEPT ![Pro].surcharge = s[Pro].price - Merged(s, current)[Flash].price]
    ELSE s

PairFits(rows) ==
  {Flash, Pro} \subseteq DOMAIN rows =>
     /\ rows[Pro].price >= rows[Flash].price
     /\ rows[Pro].surcharge # None
     /\ rows[Pro].price = rows[Flash].price + rows[Pro].surcharge

\* Sections 4.1 and 4.2 on the merged view, with the surcharge derived.
Valid(s, current) ==
  /\ Pro \in DOMAIN s /\ s[Pro].surcharge = None => Flash \in DOMAIN Merged(s, current)
  /\ PairFits(Merged(Derived(s, current), current))

\* The request reads the current rows and validates; 404 without template and
\* 422 for an invalid view end it without a trace.
Validate(a, s) ==
  /\ upsert[a].pc = "idle"
  /\ template.known
  /\ Valid(s, Current)
  /\ upsert' = [upsert EXCEPT ![a] = [pc |-> "valid", rows |-> Derived(s, Current), seen |-> Current]]
  /\ UNCHANGED <<template, entries, script, accepted>>

\* The next versions, from a later snapshot.
Allocate(a) ==
  /\ upsert[a].pc = "valid"
  /\ upsert' = [upsert EXCEPT ![a] = [pc |-> "allocated", rows |-> @.rows, seen |-> @.seen,
                   version |-> [t \in DOMAIN @.rows |-> Len(entries[t]) + 1]]]
  /\ UNCHANGED <<template, entries, script, accepted>>

StoredRow(a, t) ==
  Row(upsert[a].rows[t].price, upsert[a].rows[t].surcharge, upsert[a].rows[t].reference,
      upsert[a].version[t], a)

\* The answer names the tiers with the versions of their new rows.
Told(a) == {<<t, upsert[a].version[t]>> : t \in DOMAIN upsert[a].rows}
AcceptedWith(a) ==
  [k \in Told(a) \union DOMAIN accepted |->
     IF k \in Told(a) THEN StoredRow(a, k[1]) ELSE accepted[k]]

\* Every chosen version is still free.
VersionsFree(a) ==
  \A t \in DOMAIN upsert[a].rows : upsert[a].version[t] = Len(entries[t]) + 1

\* Mutant: versions are not unique, a row of another request is replaced.
InsertReplacing(a) ==
  /\ upsert[a].pc = "allocated"
  /\ \A t \in DOMAIN upsert[a].rows : upsert[a].version[t] <= MaxVersion
  /\ entries' = [t \in Tiers |->
       IF t \in DOMAIN upsert[a].rows
         THEN SubSeq(entries[t], 1, upsert[a].version[t] - 1) \o <<StoredRow(a, t)>> ELSE entries[t]]
  /\ accepted' = AcceptedWith(a)
  /\ upsert' = [upsert EXCEPT ![a] = Resting]
  /\ UNCHANGED <<template, script>>

\* All rows are inserted and committed, and the client is told so.
Insert(a) ==
  /\ upsert[a].pc = "allocated"
  /\ VersionsFree(a)
  /\ \A t \in DOMAIN upsert[a].rows : upsert[a].version[t] <= MaxVersion
  /\ entries' = [t \in Tiers |->
       IF t \in DOMAIN upsert[a].rows THEN Append(entries[t], StoredRow(a, t)) ELSE entries[t]]
  /\ accepted' = AcceptedWith(a)
  /\ upsert' = [upsert EXCEPT ![a] = Resting]
  /\ UNCHANGED <<template, script>>

\* 503: a version is taken, or the database fails; the transaction is undone.
InsertFails(a) ==
  /\ upsert[a].pc = "allocated"
  /\ upsert' = [upsert EXCEPT ![a] = Resting]
  /\ UNCHANGED <<template, entries, script, accepted>>

-----------------------------------------------------------------------------
(* The scripts.                                                             *)

FormulaPrices(s) == [t \in Tiers |-> Formula(t, s)]

\* Mutant: a tier counts as current when its reference is, whatever its price.
OutdatedByReference(t, s) == Current[t].reference # Formula(t, s)

\* A tier is rewritten unless both its columns hold the formula's value.
Outdated(t, s) == Current[t].price # Formula(t, s) \/ Current[t].reference # Formula(t, s)

ScriptRow(t, s) ==
  Row(Formula(t, s), SurchargeOf(t, FormulaPrices(s)), Formula(t, s), script.version[t], "refresh")

\* plan_refresh for a template the database knows, plan_seeds for one it does
\* not: the rows to insert, each at the version after the one read.
Plan(s) ==
  /\ script.pc = "idle"
  /\ script' = [pc |-> "planned", seconds |-> s, seed |-> ~template.known, seen |-> Current,
                version |->
                  IF template.known
                    THEN [t \in {u \in DOMAIN Current : Outdated(u, s)} |-> Len(entries[t]) + 1]
                    ELSE [t \in Tiers |-> 1]]
  /\ UNCHANGED <<template, entries, upsert, accepted>>

\* ON CONFLICT DO NOTHING: a row is inserted where its version is still free.
Inserted(t) == t \in DOMAIN script.version /\ script.version[t] = Len(entries[t]) + 1

\* Mutant: the duration is only written for a template that has none.
ApplyKeepsDuration ==
  /\ script.pc = "planned"
  /\ \A t \in DOMAIN script.version : script.version[t] <= MaxVersion
  /\ template' = IF template.known /\ template.seconds # None THEN template
                 ELSE [known |-> TRUE, seconds |-> script.seconds]
  /\ entries' = [t \in Tiers |->
       IF Inserted(t) THEN Append(entries[t], ScriptRow(t, script.seconds)) ELSE entries[t]]
  /\ script' = Resting
  /\ UNCHANGED <<upsert, accepted>>

\* One transaction: the seeded template if it is still missing, or the new
\* duration, and the rows.
Apply ==
  /\ script.pc = "planned"
  /\ \A t \in DOMAIN script.version : script.version[t] <= MaxVersion
  /\ template' = IF script.seed /\ template.known THEN template
                 ELSE [known |-> TRUE, seconds |-> script.seconds]
  /\ entries' = [t \in Tiers |->
       IF Inserted(t) THEN Append(entries[t], ScriptRow(t, script.seconds)) ELSE entries[t]]
  /\ script' = Resting
  /\ UNCHANGED <<upsert, accepted>>

\* A dry run, a failing statement or a crash: nothing of the plan stays.
GiveUp ==
  /\ script.pc = "planned"
  /\ script' = Resting
  /\ UNCHANGED <<template, entries, upsert, accepted>>

\* The seed from the v1 prices: version 1 of every tier, each inserted where
\* it is free, and the template without a duration.  A CHECK refuses a Pro
\* below its Flash, and with it the whole seed.
SeedLegacy ==
  /\ LegacyPrices[Pro] >= LegacyPrices[Flash]
  /\ template' = IF template.known THEN template ELSE [known |-> TRUE, seconds |-> None]
  /\ entries' = [t \in Tiers |->
       IF entries[t] = <<>>
         THEN <<Row(LegacyPrices[t], SurchargeOf(t, LegacyPrices), LegacyPrices[t], 1, "seed")>>
         ELSE entries[t]]
  /\ entries' # entries
  /\ UNCHANGED <<upsert, script, accepted>>

-----------------------------------------------------------------------------
(* GET /pricing/catalog/<template>/tiers, POST /pricing/quote.              *)

Inherited(t, current) == t \in DOMAIN Family /\ t \notin DOMAIN current

\* The price of a tier of its own, or the family's, scaled.
EffectivePrice(t, current) ==
  IF Inherited(t, current) THEN Scaled(Family[t]) ELSE current[t].price

Effective(current) ==
  [t \in DOMAIN current \union DOMAIN Family |-> EffectivePrice(t, current)]

\* 404 without tiers, 422 when an inherited Pro is cheaper than Flash.  Otherwise
\* it is shown with the difference for its surcharge.
Resolvable(current) ==
  /\ DOMAIN Effective(current) # {}
  /\ Inherited(Pro, current) /\ Flash \in DOMAIN Effective(current) =>
       Effective(current)[Pro] >= Effective(current)[Flash]

\* What can be quoted: the tiers tell which combinations an existing template has.
Quotes ==
  CustomQuotes \union
  IF template.known /\ template.seconds # None /\ Resolvable(Current)
    THEN {TierQuotes[t][template.seconds] : t \in DOMAIN Effective(Current)} ELSE {}

-----------------------------------------------------------------------------

Next ==
  \/ \E a \in Admins : (\E s \in Submissions : Validate(a, s)) \/ Allocate(a) \/ Insert(a) \/ InsertFails(a)
  \/ (\E s \in Durations : Plan(s)) \/ Apply \/ GiveUp \/ SeedLegacy

Spec == Init /\ [][Next]_vars

-----------------------------------------------------------------------------

RowType ==
  [price : Nat, surcharge : Nat \union {None}, reference : Nat,
   version : 1 .. MaxVersion, by : Admins \union {"refresh", "seed"}]

\* Rows are what the columns and their checks allow: prices and surcharges are
\* never negative, whoever wrote them.
TypeOK ==
  /\ template \in [known : BOOLEAN, seconds : Durations \union {None}]
  /\ \A t \in Tiers : Len(entries[t]) <= MaxVersion /\ \A v \in DOMAIN entries[t] : entries[t][v] \in RowType /\ entries[t][v].version = v
  /\ \A a \in Admins : upsert[a].pc \in {"idle", "valid", "allocated"}
  /\ script.pc \in {"idle", "planned"}
  /\ \A k \in DOMAIN accepted : k \in Tiers \X (1 .. MaxVersion) /\ accepted[k] \in RowType

\* What an admin was told is stored stays in the history under the version the
\* answer named, whatever other admins and the scripts write at the same time
\* (upsert_tiers, the UNIQUE key, ON CONFLICT DO NOTHING).
AcceptedStays ==
  \A k \in DOMAIN accepted : k[2] \in DOMAIN entries[k[1]] /\ entries[k[1]][k[2]] = accepted[k]

\* A tier the refresh script priced last costs what the template's duration
\* costs, so the catalogue and the quote agree on it: the script writes two
\* tables from one plan, and rows of the plan may have been skipped.
RefreshedPriceTheDuration ==
  \A t \in DOMAIN Current :
     Current[t].by = "refresh" =>
       template.seconds # None /\ Current[t].price = Formula(t, template.seconds)

\* Versions are dense, rows are valid, and the script's follow the duration.
RowsAreSound == TypeOK /\ RefreshedPriceTheDuration

\* The rows of a quote's breakdown are whole points that sum to the charge
\* (section 4.3), on both sides of the third minute and for every rounding.
BreakdownAddsUp ==
  \A q \in Quotes :
    /\ SumOf(q.breakdown) = q.charge
    /\ \A k \in DOMAIN q.breakdown : q.breakdown[k] >= 0

\* The charge is the sum of the subtotals rounded up once, nothing being
\* rounded in between (tiered_subtotal's comment).
RoundedOnce ==
  \A q \in Quotes :
    LET first == Min({q.n, 900})
        exact == MapThenSumSet(LAMBDA k : q.recipe[k][1] * first + q.recipe[k][2] * (q.n - first),
                               DOMAIN q.recipe)
    IN q.charge = (exact + 299) \div 300

\* An accepted upsert leaves Flash, Pro and the surcharge in agreement when no
\* one else wrote since it read the rows, be it of the other tier only.
CheckedPairFits ==
  [][\A a \in Admins :
       /\ upsert[a].pc = "allocated" /\ upsert'[a].pc = "idle" /\ entries' # entries
       /\ upsert[a].seen = Current
       => PairFits(Current')]_vars

\* After a refresh that nobody overtook every tier costs what the formula says,
\* in both columns: nothing is left for a second run.
RefreshSettles ==
  [][/\ script.pc = "planned" /\ script'.pc = "idle"
     /\ <<template, entries>>' # <<template, entries>>
     /\ script.seen = Current
     => \A t \in DOMAIN Current' :
          Current'[t].price = Formula(t, script.seconds) /\ Current'[t].reference = Current'[t].price]_vars

=============================================================================
