------------------------------- MODULE Partners -------------------------------
(***************************************************************************)
(* The partners of a partnership and their profit shares                   *)
(* (src/src/domain/config/partners.ts), and what each partner's part of an *)
(* amount comes to by the shares in force, day by day.  The accounts that  *)
(* a partner's record brings into the chart count as active before it:     *)
(* nothing names them until then.                                          *)
(*                                                                         *)
(* The day a partner left is read by the code and written by none of it,   *)
(* and left out; so is whether a partner is active or sleeping, which only *)
(* the tax computation reads.                                              *)
(***************************************************************************)
EXTENDS Journal, FiniteSetsExt

CONSTANTS
  EntityTypes,      \* the kinds of business the books may be of
  Partners,         \* partners there may be, numbered in the order of their names
  CurrentAccount,   \* each partner's current account
  BasisPoints       \* the shares a partner may be given, of Whole

Whole == 10000
Open == 0           \* no last day yet

ASSUME PartnersAssumption ==
  /\ EntityTypes \subseteq {"company", "sole_trader", "partnership"}
  /\ Partners \subseteq Nat /\ IsFiniteSet(Partners)
  /\ CurrentAccount \in [Partners -> Accounts \ SystemAccounts]
  /\ BasisPoints \subseteq 0..Whole
  /\ Open \notin Dates

VARIABLES
  entityType,   \* companies.entity_type, settled when the books are set up
  partners,     \* each partner recorded: [joined, precedent, lent]; the last says
                \* whether they have a loan account (PartnerLoans)
  shares        \* [partner, bp, from, to], each up to the day it was replaced on

partnerVars == <<entityType, partners, shares>>

PartnersInit ==
  /\ entityType \in EntityTypes
  /\ partners = [p \in {} |-> [joined |-> Open, precedent |-> FALSE, lent |-> FALSE]]
  /\ shares = {}

NewShare(p, bp, from) == [partner |-> p, bp |-> bp, from |-> from, to |-> Open]

AddPartner(p, bp, joined, precedent) ==
  /\ entityType = "partnership"
  /\ p \notin DOMAIN partners
  /\ precedent => \A q \in DOMAIN partners : ~partners[q].precedent
  /\ partners' = [q \in DOMAIN partners \cup {p} |->
                    IF q = p THEN [joined |-> joined, precedent |-> precedent, lent |-> FALSE]
                    ELSE partners[q]]
  /\ shares' = shares \cup {NewShare(p, bp, joined)}
  /\ UNCHANGED <<vars, entityType>>

\* A new share from a day on: the one in force ends on it, and is never edited.
SetPartnerShare(p, bp, from) ==
  /\ entityType = "partnership"
  /\ \E current \in shares :
       /\ current.partner = p /\ current.to = Open
       /\ from > current.from
       /\ shares' = (shares \ {current}) \cup {[current EXCEPT !.to = from], NewShare(p, bp, from)}
  /\ UNCHANGED <<vars, entityType, partners>>

PartnersStep ==
  \E p \in Partners, bp \in BasisPoints, d \in Dates :
    \/ \E precedent \in BOOLEAN : AddPartner(p, bp, d, precedent)
    \/ SetPartnerShare(p, bp, d)
------------------------------------------------------------------------------
(* The allocation of an amount over a span of days. *)

SharesOn(d) == {s \in shares : s.from <= d /\ (s.to = Open \/ d < s.to)}

\* The first days of the stretches of the span over which no share changed.
Stretches(span) ==
  {span.start} \cup
  {d \in {s.from : s \in shares} \cup {s.to : s \in shares} : span.start < d /\ d <= span.end}

LastOf(d, span) == Min({e - 1 : e \in {f \in Stretches(span) : f > d}} \cup {span.end})

Days(first, last) == last - first + 1

AddUp(S) == Total([s \in S |-> s.bp]) = Whole

\* shareGaps finds none.
SharesAddUp(span) == \A d \in Stretches(span) : AddUp(SharesOn(d))

Sharing(span) == {s.partner : s \in UNION {SharesOn(d) : d \in Stretches(span)}}

\* A partner's part of a stretch: the stretch's part of the amount by days,
\* rounded, then the share of that, rounded again.
PartOfStretch(s, d, span, amount) ==
  RoundedShare(RoundedShare(amount, Days(d, LastOf(d, span)), Days(span.start, span.end)),
               s.bp, Whole)

RoundedPart(p, span, amount) ==
  Total([d \in Stretches(span) |->
           Total([s \in {s \in SharesOn(d) : s.partner = p} |-> PartOfStretch(s, d, span, amount)])])

JoinedBefore(p, q) ==
  \/ partners[p].joined < partners[q].joined
  \/ partners[p].joined = partners[q].joined /\ p < q

\* The precedent partner, or who joined first, by name on the same day.
TakesResidue(p, span) ==
  LET among == Sharing(span) IN
  /\ p \in among
  /\ IF \E q \in among : partners[q].precedent THEN partners[p].precedent
     ELSE \A q \in among \ {p} : JoinedBefore(p, q)

Residue(span, amount) ==
  amount - Total([p \in Sharing(span) |-> RoundedPart(p, span, amount)])

\* Slip: what rounding leaves over is placed with no one.
AllocatedAsRounded(p, span, amount) == RoundedPart(p, span, amount)

\* allocateByShares.
Allocated(p, span, amount) ==
  RoundedPart(p, span, amount)
    + IF SharesAddUp(span) /\ TakesResidue(p, span) THEN Residue(span, amount) ELSE 0
=============================================================================
