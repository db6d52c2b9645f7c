---------------------------------- MODULE Vat ----------------------------------
(***************************************************************************)
(* The VAT arithmetic of an invoice (tax.ts), in integer centimes.  A      *)
(* price before tax (HT) is taxed with one rounding; an amount that was    *)
(* charged, tax included (TTC), is split with one rounding and a           *)
(* remainder.  Pure operators; the module has no state.                    *)
(***************************************************************************)
EXTENDS Naturals

VAT_RATE_PERCENT == 20

\* Math.round(n / d) of naturals: to the nearest, halves upwards.
Round(n, d) == (2 * n + d) \div (2 * d)

computeVat(ht) ==
    LET vat == Round(ht * VAT_RATE_PERCENT, 100)
    IN  [amountHT |-> ht, vatAmount |-> vat, amountTTC |-> ht + vat]

\* Mutant: tax and net are rounded separately.
RoundedTwice(ttc) ==
    [amountHT  |-> Round(ttc * 100, 100 + VAT_RATE_PERCENT),
     vatAmount |-> Round(ttc * VAT_RATE_PERCENT, 100 + VAT_RATE_PERCENT), amountTTC |-> ttc]

computeVatFromTtc(ttc) ==
    LET ht == Round(ttc * 100, 100 + VAT_RATE_PERCENT)
    IN  [amountHT |-> ht, vatAmount |-> ttc - ht, amountTTC |-> ttc]

\* The reference: no breakdown with integer amounts is nearer to the rate.  The tax of an
\* amount is off by less than a centime, the net price of what was charged by half of one.
Balanced(b) == b.vatAmount \in Nat /\ b.amountHT + b.vatAmount = b.amountTTC

AtRate(b) == 5 * b.vatAmount <= b.amountHT + 3 /\ b.amountHT <= 5 * b.vatAmount + 3

\* Both directions balance to the centime and keep the rate, and what is charged for a
\* price is split back into that price: a prorated invoice and a full one agree.
VatOf(amount) ==
    /\ Balanced(computeVat(amount)) /\ AtRate(computeVat(amount))
    /\ Balanced(computeVatFromTtc(amount)) /\ AtRate(computeVatFromTtc(amount))
    /\ computeVatFromTtc(computeVat(amount).amountTTC) = computeVat(amount)
================================================================================
