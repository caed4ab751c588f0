------------------------------ MODULE Allowances ------------------------------
(***************************************************************************)
(* Claims with no receipt behind them (reports/allowances.js), worked out  *)
(* from the company's own rates and policy (store/policy.js): a per diem   *)
(* for the days of a trip and mileage for a drive; the dialogs that show   *)
(* the sum first (components/cases/Allowances.jsx, utils/allowances.js);   *)
(* and the pages where admins keep the rates and the policy.               *)
(*                                                                         *)
(* Days are numbers, money is cents, a share is a percentage, a distance   *)
(* is hundredths of a km and a mileage rate ten-thousandths a km, as they  *)
(* are kept.  Of the policy the two settings an amount rests on are kept.   *)
(***************************************************************************)
EXTENDS Integers, Sequences, FiniteSets
Sets == INSTANCE FiniteSetsExt

CONSTANTS
  Country,      \* countries there may be a rate for
  Admin,        \* admins with the policy page open
  LastDay,      \* days are 1..LastDay
  Rate,         \* rates an admin may add: [country, from, ccy, cents]
  Share,        \* travel-day shares an admin may set, in percent
  PerKm,        \* mileage rates an admin may set
  Km,           \* distances driven
  MaxDays, MaxKm,
  MaxRateChanges, MaxPolicyChanges, MaxCaseChanges, MaxAdded   \* bounds

ASSUME AllowancesAssumption ==
  /\ LastDay \in Nat \ {0} /\ MaxDays \in Nat /\ MaxKm \in Nat
  /\ Rate \subseteq [country : Country, from : 1..LastDay, ccy : Country, cents : Nat \ {0}]
  /\ Share \subseteq 0..100 /\ PerKm \subseteq Nat \ {0} /\ Km \subseteq Nat

VARIABLES
  rates,        \* per_diem_rates: [country, from, ccy, cents]
  policy,       \* company_policy
  cache,        \* _cache of it, or Unread
  trip,         \* the case: [kind, from, to, open, evidence]
  claims,       \* the allowances in it: [id, what, country, ccy, cents]
  settings,     \* each admin's policy form, or Unread
  dialog,       \* the dialog open on the case's page
  surprised,    \* something was added that the dialog did not show
  mispaid,      \* a per diem does not pay each day at the rate in force
  changes       \* how often each thing was changed

companyVars   == <<rates, policy, cache, settings>>
allowanceVars == <<companyVars, trip, claims, dialog, surprised, mispaid, changes>>

Day      == 1..LastDay
Unread   == [unread |-> TRUE]
Unoffered == "?"
NoDay    == 0
Home     == "home"
Defaults == [travel |-> 100, perKm |-> 0]
Settings == {"travel", "perKm"}
SettingValues(k) == IF k = "travel" THEN Share \cup {100, 120} ELSE PerKm \cup {0}
Policy   == [travel : Share \cup {100}, perKm : PerKm \cup {0}]
Closed   == [what |-> "none"]

\* What the case says of where it was: of each receipt the country printed on it and
\* the one its currency is of, and any country its destination names.
Evidence == LET c == CHOOSE x \in Country : TRUE
                b == CHOOSE x \in Country : Cardinality(Country) = 1 \/ x # c
            IN {[receipts |-> <<>>, named |-> {}], [receipts |-> <<>>, named |-> {b}],
                [receipts |-> <<[printed |-> Home, byCcy |-> c]>>, named |-> {b}],
                [receipts |-> <<[printed |-> b, byCcy |-> Home], [printed |-> c, byCcy |-> b], [printed |-> c, byCcy |-> b]>>,
                 named |-> {}]}

AllowanceInit ==
  /\ rates \in {{}} \cup {{r} : r \in Rate} /\ policy = Defaults /\ cache = Unread
  /\ trip \in [kind : {"trip"}, from : {1}, to : {LastDay - 1}, open : {TRUE}, evidence : Evidence]
  /\ claims = {} /\ settings = [a \in Admin |-> Unread] /\ dialog = Closed
  /\ surprised = FALSE /\ mispaid = FALSE
  /\ changes = [rates |-> 0, policy |-> 0, case |-> 0, added |-> 0]

Within(what, most) == changes[what] < most /\ changes' = [changes EXCEPT ![what] = @ + 1]

-----------------------------------------------------------------------------
(* The company's policy, kept once read, and its rates. *)

GetPolicy == IF cache = Unread THEN policy ELSE cache
\* Read for the flags of every receipt shown, and for the settings page.
ReadPolicy ==
  /\ cache = Unread /\ cache' = policy
  /\ UNCHANGED <<rates, policy, settings, trip, claims, dialog, surprised, mispaid, changes>>

OpenSettings(a) ==
  /\ settings[a] = Unread
  /\ cache' = GetPolicy /\ settings' = [settings EXCEPT ![a] = GetPolicy]
  /\ UNCHANGED <<rates, policy, trip, claims, dialog, surprised, mispaid, changes>>
TypeSetting(a, k, v) ==
  /\ settings[a] # Unread /\ v # settings[a][k]
  /\ Within("policy", MaxPolicyChanges)
  /\ settings' = [settings EXCEPT ![a][k] = v]
  /\ UNCHANGED <<rates, policy, cache, trip, claims, dialog, surprised, mispaid>>

\* Every value is checked before anything is written, and the copy kept is dropped.
Accepted(p) == p.travel <= 100
SetPolicy(p) == policy' = p /\ cache' = p
\* The page sends the whole form, what it does not say as none.
SaveSettings(a) ==
  /\ settings[a] # Unread /\ settings[a] # policy
  /\ Accepted(settings[a]) /\ SetPolicy(settings[a])
  /\ UNCHANGED <<rates, settings, trip, claims, dialog, surprised, mispaid, changes>>

\* A rate is added, never edited; one for the same day is refused.
RateTaken(r)   == \E o \in rates : o.country = r.country /\ o.from = r.from
WithoutRate(r) == rates \ {r}
AddRate(r) ==
  /\ ~RateTaken(r)
  /\ Within("rates", MaxRateChanges)
  /\ rates' = rates \cup {r}
  /\ UNCHANGED <<policy, cache, settings, trip, claims, dialog, surprised, mispaid>>
DeleteRate(r) ==
  /\ Within("rates", MaxRateChanges)
  /\ rates' = WithoutRate(r)
  /\ UNCHANGED <<policy, cache, settings, trip, claims, dialog, surprised, mispaid>>

-----------------------------------------------------------------------------
(* What a trip and a drive are worth. *)

Started(rs, c, d) == {r \in rs : r.country = c /\ r.from <= d}
\* mutant: the rate a country began with prices every day.
RateForFirst(rs, c, d) == {r \in Started(rs, c, d) : \A o \in Started(rs, c, d) : r.from <= o.from}
\* The latest rate that had started by that day.
RateFor(rs, c, d) == {r \in Started(rs, c, d) : \A o \in Started(rs, c, d) : o.from <= r.from}

Weight(d, from, to, share) == IF d = from \/ d = to THEN share ELSE 100
Cents(hundredths) == (hundredths + 50) \div 100

\* perDiemPlan: what it pays, or why it pays nothing.  `priced' is each day's rate.
Refused(why) == [problem |-> why]
Worth(d, from, to, share, priced) == (CHOOSE r \in priced[d] : TRUE).cents * Weight(d, from, to, share)
Pays(from, to, share, priced) ==
  LET days == from..to
      ccys == {r.ccy : r \in UNION {priced[d] : d \in days}}
      Of(d) == Worth(d, from, to, share, priced)
  IN IF \E d \in days : priced[d] = {} THEN Refused("no rate")
     ELSE IF Cardinality(ccys) > 1 THEN Refused("two currencies")
     ELSE IF Cents(Sets!MapThenSumSet(Of, days)) = 0 THEN Refused("nothing")
     ELSE [problem |-> "none", ccy |-> CHOOSE c \in ccys : TRUE, cents |-> Cents(Sets!MapThenSumSet(Of, days))]
PerDiemPlan(rs, c, from, to, share) ==
  IF to < from THEN Refused("ends before it starts")
  ELSE IF to - from + 1 > MaxDays THEN Refused("too long")
  ELSE Pays(from, to, share, [d \in from..to |-> RateFor(rs, c, d)])

\* The page's copy of the rule walks the list it was given.
RateOn(rs, c, d) ==
  LET known == {r \in rs : r.country = c /\ ~(r.from > d)}
  IN {r \in known : r.from = Sets!Max({k.from : k \in known})}
PerDiemPreview(rs, c, from, to, share) ==
  IF c = "" \/ from = NoDay \/ to = NoDay \/ to < from \/ to - from + 1 > MaxDays THEN Refused("not yet")
  ELSE Pays(from, to, share, [d \in from..to |-> RateOn(rs, c, d)])

MostCommon(said) ==
  LET named == {said[i] : i \in DOMAIN said} \ {Home}
      Times(c) == Cardinality({i \in DOMAIN said : said[i] = c})
      First(c) == Sets!Min({i \in DOMAIN said : said[i] = c})
  IN {c \in named : \A o \in named : Times(c) > Times(o) \/ (Times(c) = Times(o) /\ First(c) <= First(o))}
\* Where most foreign receipts were printed, else of what currency they are, else what
\* the destination names; home is never guessed.
PerDiemCountry(ev) ==
  LET printed == MostCommon([i \in DOMAIN ev.receipts |-> ev.receipts[i].printed])
      byCcy   == MostCommon([i \in DOMAIN ev.receipts |-> ev.receipts[i].byCcy])
  IN IF printed # {} THEN printed ELSE IF byCcy # {} THEN byCcy ELSE ev.named

\* A drive, in millionths: halves of a cent go up on the server; the page multiplies in
\* binary, where half a cent may come out just under.
Millionths(km, back, perKm) == km * (IF back THEN 2 ELSE 1) * perKm
MileageCents(m)   == (m + 5000) \div 10000
MileagePreview(m) == IF m % 10000 = 5000 THEN {m \div 10000, (m + 5000) \div 10000} ELSE {MileageCents(m)}

-----------------------------------------------------------------------------
(* The case and its dialogs. *)

EditCase(t) ==
  /\ trip.open /\ Within("case", MaxCaseChanges) /\ t # trip
  /\ trip' = t
  /\ UNCHANGED <<companyVars, claims, dialog, surprised, mispaid>>
RemoveClaim(x) ==
  /\ trip.open /\ Within("case", MaxCaseChanges)
  /\ claims' = claims \ {x}
  /\ UNCHANGED <<companyVars, trip, dialog, surprised, mispaid>>

OpenDialog(what) ==
  /\ trip.open /\ dialog = Closed
  /\ what = "per diem" => trip.kind = "trip" /\ trip.from # NoDay /\ trip.to # NoDay
  /\ dialog' = [what |-> what, policy |-> Unread, rates |-> {Unread}, country |-> Unoffered, from |-> trip.from, to |-> trip.to]
  /\ UNCHANGED <<companyVars, trip, claims, surprised, mispaid, changes>>
CloseDialog ==
  /\ dialog # Closed /\ dialog' = Closed
  /\ UNCHANGED <<companyVars, trip, claims, surprised, mispaid, changes>>
\* The two answers it waits for.
DialogPolicy ==
  /\ dialog # Closed /\ dialog.policy = Unread
  /\ dialog' = [dialog EXCEPT !.policy = GetPolicy] /\ cache' = GetPolicy
  /\ UNCHANGED <<rates, policy, settings, trip, claims, surprised, mispaid, changes>>
DialogRates ==
  /\ dialog.what = "per diem" /\ dialog.rates = {Unread}
  /\ dialog' = [dialog EXCEPT !.rates = rates]
  /\ UNCHANGED <<companyVars, trip, claims, surprised, mispaid, changes>>
\* What the case says, else the per diem the case has, else the one country rated.
Offered ==
  LET had   == {x.country : x \in {y \in claims : y.what = "per diem"}}
      rated == {r.country : r \in dialog.rates}
  IN IF PerDiemCountry(trip.evidence) # {} THEN PerDiemCountry(trip.evidence)
     ELSE IF had # {} THEN had ELSE IF Cardinality(rated) = 1 THEN rated ELSE {""}
Loaded == dialog # Closed /\ dialog.policy # Unread /\ (dialog.what = "per diem" => dialog.rates # {Unread})
OfferCountry ==
  /\ Loaded /\ dialog.what = "per diem"
  /\ \E c \in IF dialog.country = Unoffered THEN Offered ELSE Country \ {dialog.country} :
       dialog' = [dialog EXCEPT !.country = c]
  /\ UNCHANGED <<companyVars, trip, claims, surprised, mispaid, changes>>
\* The case page, refreshed, gives the dialog the case as it is.
PageRefreshed ==
  /\ dialog # Closed /\ trip.open
  /\ <<dialog.from, dialog.to>> # <<trip.from, trip.to>>
  /\ dialog' = [dialog EXCEPT !.from = trip.from, !.to = trip.to]
  /\ UNCHANGED <<companyVars, trip, claims, surprised, mispaid, changes>>

\* What each day of the trip pays by the rates, one rate at a time: from its first day
\* to the day before the next of its country begins.
DaysAt(r, of, from, to) == {d \in from..to : r.from <= d /\ \A o \in of : o.from > r.from => d < o.from}
DayShare(d, from, to, share) == IF d \in {from, to} THEN share ELSE 100
PaidFor(r, days, from, to, share) ==
  LET Of(d) == DayShare(d, from, to, share) IN r.cents * Sets!MapThenSumSet(Of, days)
PaidAt(r, of, from, to, share) == PaidFor(r, DaysAt(r, of, from, to), from, to, share)
PaidAll(of, from, to, share) ==
  LET Of(r) == PaidAt(r, of, from, to, share) IN Cents(Sets!MapThenSumSet(Of, of))
WorthByRates(rs, c, from, to, share) ==
  LET of == {r \in rs : r.country = c}
  IN IF UNION {DaysAt(r, of, from, to) : r \in of} = from..to THEN PaidAll(of, from, to, share) ELSE 0

\* mutant: the per diem there was stays.
AllClaims(s)   == s
\* The old one goes and the new one comes in one step.
OtherClaims(s) == {x \in s : x.what # "per diem"}
Claim(what, country, ccy, cents) == [id |-> changes.added + 1, what |-> what, country |-> country, ccy |-> ccy, cents |-> cents]
AddPerDiem(c, plan) ==
  /\ trip.kind = "trip" /\ trip.from # NoDay /\ trip.to # NoDay
  /\ plan.problem = "none"
  /\ claims' = OtherClaims(claims) \cup {Claim("per diem", c, plan.ccy, plan.cents)}
  /\ mispaid' = (mispaid \/ plan.cents # WorthByRates(rates, c, trip.from, trip.to, GetPolicy.travel))
PlanNow(c) == PerDiemPlan(rates, c, trip.from, trip.to, GetPolicy.travel)

\* The dialog was shown what holds now.
SameBasis ==
  /\ dialog.rates = rates /\ dialog.policy = policy
  /\ dialog.from = trip.from /\ dialog.to = trip.to
\* Answered, or the answer is lost and the dialog stays to be pressed again.
Answered == dialog' \in {Closed, dialog}
PressPerDiem ==
  /\ Loaded /\ dialog.what = "per diem" /\ dialog.country # Unoffered /\ trip.open
  /\ Within("added", MaxAdded)
  /\ LET shown == PerDiemPreview(dialog.rates, dialog.country, dialog.from, dialog.to, dialog.policy.travel)
         plan == PlanNow(dialog.country)
     IN /\ shown.problem = "none"
        /\ surprised' = (surprised \/ (SameBasis /\ plan # shown))
        /\ \/ AddPerDiem(dialog.country, plan) /\ Answered
           \/ plan.problem # "none" /\ UNCHANGED <<claims, mispaid, dialog>>
  /\ cache' = GetPolicy
  /\ UNCHANGED <<rates, policy, settings, trip>>
\* Asked without a country, not from the page: the one the receipts were spent in.
AskPerDiem ==
  /\ trip.open /\ Within("added", MaxAdded)
  /\ \E c \in PerDiemCountry(trip.evidence) : AddPerDiem(c, PlanNow(c))
  /\ cache' = GetPolicy
  /\ UNCHANGED <<rates, policy, settings, trip, dialog, surprised>>

PressMileage(km, back) ==
  /\ Loaded /\ dialog.what = "mileage" /\ trip.open /\ dialog.policy.perKm # 0
  /\ Within("added", MaxAdded)
  /\ LET cents == MileageCents(Millionths(km, back, GetPolicy.perKm))
         shown == MileagePreview(Millionths(km, back, dialog.policy.perKm))
     IN IF GetPolicy.perKm = 0 \/ km = 0 \/ km > MaxKm \/ cents = 0 THEN UNCHANGED <<claims, dialog, surprised>>
        ELSE /\ claims' = claims \cup {Claim("mileage", Home, Home, cents)}
             /\ surprised' = (surprised \/ (dialog.policy = policy /\ \E s \in shown : s \notin {cents, cents - 1}))
             /\ Answered
  /\ cache' = GetPolicy
  /\ UNCHANGED <<rates, policy, settings, trip, mispaid>>

AllowanceNext ==
  \/ ReadPolicy \/ CloseDialog \/ DialogPolicy \/ DialogRates \/ OfferCountry \/ PageRefreshed \/ PressPerDiem \/ AskPerDiem
  \/ \E a \in DOMAIN settings : OpenSettings(a) \/ SaveSettings(a) \/ \E k \in Settings : \E v \in SettingValues(k) : TypeSetting(a, k, v)
  \/ \E r \in Rate : AddRate(r)
  \/ \E r \in rates : DeleteRate(r)
  \/ \E f \in {NoDay, 1}, t \in Day : EditCase([trip EXCEPT !.from = f, !.to = t])
  \/ EditCase([trip EXCEPT !.kind = "case"]) \/ EditCase([trip EXCEPT !.open = FALSE])
  \/ \E x \in claims : RemoveClaim(x)
  \/ \E what \in {"per diem", "mileage"} : OpenDialog(what)
  \/ \E km \in Km, back \in BOOLEAN : PressMileage(km, back)

AllowanceSpec == AllowanceInit /\ [][AllowanceNext]_allowanceVars

AllowanceTypeOk ==
  /\ rates \subseteq Rate
  /\ policy \in Policy /\ cache \in Policy \cup {Unread}
  /\ surprised \in BOOLEAN

\* However often it is pressed, with answers lost, a trip has one per diem.
OnePerTrip == \A x, y \in claims : x.what = "per diem" /\ y.what = "per diem" => x = y
\* One rate for a country and a day, and the copy of the policy is the policy.
CompanySpeaksOnce ==
  /\ \A r, o \in rates : r.country = o.country /\ r.from = o.from => r = o
  /\ cache # Unread => cache = policy

\* A trip has one per diem, a drive and a trip are paid what the dialog showed, and the
\* company says one thing at a time (allowances.js, utils/allowances.js, policy.js).
AllowancesHold == AllowanceTypeOk /\ OnePerTrip /\ ~surprised /\ CompanySpeaksOnce

\* A per diem pays each day what the company's rates say of it, and nothing is claimed
\* that comes to nothing (allowances.js perDiemPlan).
PaidByRates == ~mispaid /\ \A x \in claims : x.cents \in Nat \ {0}
=============================================================================
