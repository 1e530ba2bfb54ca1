------------------------------- MODULE LegalTools -------------------------------
(***************************************************************************)
(* The calculating tools of the agent: notice periods                      *)
(* (src/tools/paragraph_lookup.py) and the rent brake                      *)
(* (src/tools/operating_costs.py).  Aliases of the inputs are one value    *)
(* here; the wording of the answers is left out.                           *)
(***************************************************************************)
EXTENDS Integers, FiniteSets

CONSTANTS Missing, Refused

Party == {"mieter", "vermieter"}

TenancyType ==
  {"residential", "welfare_housing", "furnished_room", "temporary_residential", "land",
   "commercial_undeveloped_land", "other_room_nonbusiness", "commercial_space"}

Interval == {"days", "weeks", "months_or_longer"}

-----------------------------------------------------------------------------
(* lookup_notice_period. *)

\* A period: months, days or quarters, or words alone.
Period(unit, n) == [unit |-> unit, n |-> n]

\* Mutant of ResidentialMonths: the fifth year is left out.
ResidentialMonthsLate(party, years) ==
  IF party = "mieter" THEN 3 ELSE IF years >= 8 THEN 9 ELSE IF years > 5 THEN 6 ELSE 3

\* _residential_notice_months.
ResidentialMonths(party, years) ==
  IF party = "mieter" THEN 3 ELSE IF years >= 8 THEN 9 ELSE IF years >= 5 THEN 6 ELSE 3

\* _require_tenancy_years, and the check of the years for every type.
YearsMissing(c) == c.type \in {"residential", "welfare_housing"} /\ c.years = Missing

\* _require_payment_interval.
IntervalMissing(c) ==
  /\ c.type \in {"land", "commercial_undeveloped_land", "other_room_nonbusiness"}
  /\ c.interval = Missing

\* _require_contractual_notice_description.
TermsMissing(c) == c.type = "temporary_residential" /\ c.terms = Missing

Invalid(c) ==
  \/ c.party \notin Party \/ c.type \notin TenancyType
  \/ c.years # Missing /\ c.years < 0
  \/ YearsMissing(c) \/ IntervalMissing(c) \/ TermsMissing(c)

\* Land and rooms that are no home, by the interval the rent is measured in.
LandPeriod(c) ==
  CASE c.interval = "days"  -> Period("days", 1)
    [] c.interval = "weeks" -> Period("words", 0)
    [] c.interval = "months_or_longer" ->
         IF c.type = "commercial_undeveloped_land" THEN Period("words", 0)
         ELSE Period("months", 3)

NoticePeriod(c) ==
  IF Invalid(c) THEN Refused
  ELSE CASE c.type \in {"residential", "welfare_housing"} ->
              Period("months", ResidentialMonths(c.party, c.years))
         [] c.type = "furnished_room" -> Period("months", 0)
         [] c.type = "temporary_residential" -> Period("terms", c.terms)
         [] c.type = "commercial_space" -> Period("quarters", 1)
         [] OTHER -> LandPeriod(c)

-----------------------------------------------------------------------------
(* check_rent_brake, in cents; areas in tenths of a square metre.          *)

\* round(x / n): of a tie, which binary fractions decide, either neighbour.
Rounded(x, n) == {r \in {x \div n, x \div n + 1} : 2 * (r * n - x) <= n /\ 2 * (x - r * n) <= n}

\* Mutant of Exempt: modernisation is not asked about.
ExemptNewOnly(c) == c.builtAfter

Exempt(c) == c.builtAfter \/ c.modernised

Excess(c, max) == IF c.rent > max THEN c.rent - max ELSE 0

\* The answers of check_rent_brake.
RentBrake(c) ==
  IF c.rent <= 0 \/ c.local <= 0 \/ c.area <= 0 THEN {Refused}
  ELSE IF Exempt(c) THEN {[max |-> -1, compliant |-> TRUE, excess |-> 0]}
  ELSE {[max |-> m, compliant |-> c.rent <= m, excess |-> Excess(c, m)] :
          m \in UNION {Rounded(monthly * 11, 10) : monthly \in Rounded(c.local * c.area, 10)}}

-----------------------------------------------------------------------------
(* Properties. *)

\* What the law says of notice (BGB 573c, 580a), stated apart from the code:
\* the landlord's period of a home grows by three months after five and eight
\* years, the tenant's stays at three; a question that lacks what its rule
\* needs is refused, never answered with another rule.
NoticeFair(c) ==
  LET answer == NoticePeriod(c)
      home == c.type \in {"residential", "welfare_housing"}
      grown == 3 * Cardinality({y \in {5, 8} : c.years >= y})
  IN /\ answer # Refused /\ home =>
          answer = Period("months", 3 + IF c.party = "vermieter" THEN grown ELSE 0)
     /\ answer # Refused /\ answer.unit = "terms" => answer.n = c.terms /\ c.terms # Missing
     /\ answer # Refused /\ ~home =>
          answer = NoticePeriod([c EXCEPT !.party = "mieter"])
     /\ answer = Refused => c.years = Missing \/ c.years < 0 \/ c.interval = Missing
                            \/ c.terms = Missing

\* The verdict of the rent brake is that of exact arithmetic but for a cent of
\* rounding: a rent above 110 % of the comparable rent is called too high and
\* the excess named, one below is not, and an exempt flat never is.
RentBrakeFair(c) ==
  \A a \in RentBrake(c) \ {Refused} :
    IF c.builtAfter \/ c.modernised THEN a.compliant /\ a.excess = 0
    ELSE LET exact == 11 * c.local * c.area      \* hundredths of a cent
         IN /\ 100 * c.rent > exact + 110 => ~a.compliant
            /\ 100 * c.rent < exact - 110 => a.compliant
            /\ a.compliant = (a.excess = 0) /\ (~a.compliant => c.rent = a.max + a.excess)
=============================================================================
