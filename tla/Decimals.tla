------------------------------ MODULE Decimals ------------------------------
(***************************************************************************)
(* Amounts of money and quantities on their way through the packages:      *)
(* text of a request -> pgtype.Numeric -> column -> pgtype.Numeric -> text  *)
(* of a response, and the arithmetic in between.  sales, checkout and      *)
(* receipt multiply price by quantity each with code of its own; catalog,  *)
(* products, inventory and sales print with code of their own.  They have  *)
(* to agree: checkout refuses a sale whose totals it computes differently. *)
(*                                                                         *)
(* A Numeric is int * 10^exp.  PostgreSQL and the driver choose exp, so a  *)
(* stored 2.50 can arrive as 250e-2, 25e-1 or 2500e-3.                     *)
(***************************************************************************)
EXTENDS Integers, Sequences, FiniteSets, FiniteSetsExt, SequencesExt

(* A text: sign, digits before the point, whether there is a point, and   *)
(* the digits after it.                                                    *)
Missing == 0 - 1    \* nothing before the point
Garbage == 0 - 2    \* something that is not all digits

Blank == [sign |-> "", whole |-> Missing, dot |-> FALSE, frac |-> <<>>]
Rejected == [sign |-> "rejected", whole |-> Missing, dot |-> FALSE, frac |-> <<>>]
Shown(whole, frac) == [sign |-> "", whole |-> whole, dot |-> TRUE, frac |-> frac]

-----------------------------------------------------------------------------
(* Numerics and their scaled integers. *)

pow10(exp) == IF exp <= 0 THEN 1 ELSE 10 ^ exp

numericFromScaledInt(value, scale) == [int |-> value, exp |-> 0 - scale]

(* QuoRem and the comparison of twice the remainder with the divisor; the  *)
(* amounts of this system are never negative.                              *)
HalfUp(value, divisor) ==
    (value \div divisor) + (IF 2 * (value % divisor) >= divisor THEN 1 ELSE 0)

(* The same function in checkout, receipt and payments. *)
numericToScaledInt(v, scale) ==
    IF v.exp >= 0 - scale THEN v.int * pow10(v.exp + scale)
                          ELSE HalfUp(v.int, pow10(0 - scale - v.exp))

roundNumeric(int, exp, scale) ==
    numericFromScaledInt(
        IF exp >= 0 - scale THEN int * pow10(exp + scale)
                            ELSE HalfUp(int, pow10(0 - scale - exp)), scale)

compareMoney(a, b) == numericToScaledInt(a, 2) - numericToScaledInt(b, 2)

subtractMoney(a, b) ==
    numericFromScaledInt(numericToScaledInt(a, 2) - numericToScaledInt(b, 2), 2)

addMoney(a, b) ==
    numericFromScaledInt(numericToScaledInt(a, 2) + numericToScaledInt(b, 2), 2)

(* sales: the product of the integers, rounded once. *)
multiplyMoneyQuantity(unitPrice, quantity) ==
    roundNumeric(unitPrice.int * quantity.int, unitPrice.exp + quantity.exp, 2)

(* Mutant: the quantity is brought to the scale of money. *)
checkoutMultiplyInCents(unitPrice, quantity) ==
    roundNumeric(numericToScaledInt(unitPrice, 2) * numericToScaledInt(quantity, 2),
                 0 - 4, 2)

(* checkout: both brought to their scales first. *)
checkoutMultiply(unitPrice, quantity) ==
    roundNumeric(numericToScaledInt(unitPrice, 2) * numericToScaledInt(quantity, 3),
                 0 - 5, 2)

(* receipt: like sales. *)
receiptMultiply(unitPrice, quantity) ==
    LET product == unitPrice.int * quantity.int
        exp == unitPrice.exp + quantity.exp
    IN  IF exp >= 0 - 2
        THEN numericFromScaledInt(product * pow10(exp + 2), 2)
        ELSE numericFromScaledInt(HalfUp(product, pow10(0 - 2 - exp)), 2)

(* PostgreSQL's ROUND(.., 2) of n thousandths of a cent: to the nearest,   *)
(* half away from zero.                                                    *)
HalfAway(n) == IF n >= 0 THEN (n + 500) \div 1000 ELSE 0 - ((500 - n) \div 1000)

(* ROUND(unit_price * quantity, 2) *)
DatabaseRound(unitPrice, quantity) ==
    HalfAway(numericToScaledInt(unitPrice, 2) * numericToScaledInt(quantity, 3))

-----------------------------------------------------------------------------
(* Text to Numeric. *)

TrimZeros(frac) ==
    SubSeq(frac, 1, Max({0} \cup {i \in DOMAIN frac : frac[i] # 0}))

Pad(frac, n) ==
    [i \in 1..(IF Len(frac) > n THEN Len(frac) ELSE n) |->
        IF i <= Len(frac) THEN frac[i] ELSE 0]

FractionValue(frac) == FoldLeft(LAMBDA v, d : 10 * v + d, 0, frac)

Unsigned(t) == t.sign = ""
AllDigits(t) == t.whole >= 0

(* Mutant: any number of decimals is accepted. *)
normalizeMoneyLong(t) ==
    IF Unsigned(t) /\ AllDigits(t) /\ (t.dot => Len(t.frac) >= 1)
    THEN Shown(t.whole, Pad(t.frac, 2))
    ELSE Rejected

(* A fraction longer than two digits is refused even if it ends in zeros. *)
normalizeMoneyString(t) ==
    IF /\ Unsigned(t) /\ AllDigits(t)
       /\ t.dot => Len(t.frac) \in 1..2
    THEN Shown(t.whole, IF t.dot THEN Pad(t.frac, 2) ELSE <<0, 0>>)
    ELSE Rejected

(* A fraction longer than three digits may end in zeros, which are cut. *)
normalizeQuantityString(t) ==
    LET kept == IF Len(t.frac) > 3 THEN TrimZeros(t.frac) ELSE t.frac
    IN  IF /\ Unsigned(t) /\ AllDigits(t)
           /\ t.dot => Len(t.frac) > 0 /\ Len(kept) <= 3
        THEN Shown(t.whole, IF t.dot THEN Pad(kept, 3) ELSE <<0, 0, 0>>)
        ELSE Rejected

hasPositiveDigit(t) == t.whole > 0 \/ \E i \in DOMAIN t.frac : t.frac[i] > 0

(* The driver's ScanScientific of a canonical text. *)
ScanScientific(t) ==
    [int |-> t.whole * pow10(Len(t.frac)) + FractionValue(t.frac),
     exp |-> 0 - Len(t.frac)]

NoNumeric == [int |-> 0 - 1, exp |-> 0]

parseQuantity(t) ==
    LET canonical == normalizeQuantityString(t)
    IN  IF canonical = Rejected \/ ~hasPositiveDigit(canonical)
        THEN NoNumeric ELSE ScanScientific(canonical)

parseMoney(t) ==
    LET canonical == normalizeMoneyString(t)
    IN  IF canonical = Rejected THEN NoNumeric ELSE ScanScientific(canonical)

-----------------------------------------------------------------------------
(* Numeric to text. *)

DigitsOf(n, count) == [i \in 1..count |-> (n \div pow10(count - i)) % 10]

(* sales, checkout, receipt and payments: zeros in front, then the point. *)
scaledIntToString(n, scale) ==
    Shown(n \div pow10(scale), DigitsOf(n % pow10(scale), scale))

(* catalog: the Numeric's digits with the point where exp puts it. *)
numericToPlainString(v) ==
    IF v.exp >= 0
    THEN [sign |-> "", whole |-> v.int * pow10(v.exp), dot |-> FALSE, frac |-> <<>>]
    ELSE Shown(v.int \div pow10(0 - v.exp), DigitsOf(v.int % pow10(0 - v.exp), 0 - v.exp))

numericToFixedScaleString(v, scale) ==
    LET plain == numericToPlainString(v)
        kept == TrimZeros(plain.frac)
    IN  IF ~plain.dot THEN Shown(plain.whole, Pad(<<>>, scale))
        ELSE IF Len(kept) > scale THEN Rejected
        ELSE Shown(plain.whole, Pad(kept, scale))

(* The driver's Value() of a Numeric: plain decimal notation. *)
DriverValue(v) ==
    IF v.exp >= 0
    THEN [sign |-> "", whole |-> v.int * pow10(v.exp), dot |-> FALSE, frac |-> <<>>]
    ELSE Shown(v.int \div pow10(0 - v.exp), DigitsOf(v.int % pow10(0 - v.exp), 0 - v.exp))

(* products: the driver's text, cut and padded to two decimals. *)
formatMoneyString(t) ==
    LET kept == TrimZeros(t.frac)
    IN  IF ~t.dot THEN Shown(t.whole, <<0, 0>>)
        ELSE IF Len(kept) > 2 THEN Rejected
        ELSE Shown(t.whole, Pad(kept, 2))

(* inventory: the driver's text through the function that reads requests. *)
inventoryQuantityString(v) == normalizeQuantityString(DriverValue(v))

(* stores shows fees without trailing zeros or point. *)
numericString(v) ==
    LET plain == DriverValue(v)
        kept == TrimZeros(plain.frac)
    IN  [sign |-> "", whole |-> plain.whole, dot |-> Len(kept) > 0, frac |-> kept]

=============================================================================
