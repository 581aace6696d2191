------------------------------ MODULE MCMoney ------------------------------
(* An instance of SaleTotals for TLC, and the converters of Decimals and   *)
(* the rules of payment methods applied to every value of small sets.      *)
EXTENDS SaleTotals, PaymentMethodRules

CONSTANTS
    Cents,          \* amounts of money, in cents
    Thousandths,    \* quantities, in thousandths
    Wholes,         \* integer parts of texts
    Digits,         \* digits used in fractions of texts
    MaxFraction     \* longest fraction of a text

(* Amounts are not negative; the powers of ten that come up stay within   *)
(* 10^11.                                                                  *)
ASSUME SamplesAssumption ==
    /\ Cents \subseteq Nat /\ Thousandths \subseteq Nat /\ Wholes \subseteq Nat
    /\ Digits \subseteq 0..9 /\ MaxFraction \in 0..7

-----------------------------------------------------------------------------
(* Payments. *)

Pay(m, amount, received, installments, reference) ==
    [method |-> m, amount |-> amount, received |-> received,
     installments |-> installments, reference |-> reference]

(* One payment with each kind of received amount, installments at the      *)
(* limits of int16 and of a method, two payments, two with one reference.  *)
SomeTenders(m) ==
    {<<Pay(m, a, Null, 1, Null)>> : a \in 1..4}
    \cup {<<Pay(m, 2, r, 1, 7)>> : r \in {1, 2, 3}}
    \cup {<<Pay(m, 2, Null, n, 7)>> : n \in {0, 3, 4, 32767, 65537, 0 - 65533}}
    \cup {<<Pay(m, 1, Null, 1, 7), Pay(m, a, Null, 1, ref)>> :
             a \in 1..2, ref \in {7, 8}}
    \cup {<<>>}

TheTenders == UNION {SomeTenders(m) : m \in Methods}

-----------------------------------------------------------------------------
(* Numbers and texts. *)

Fractions == UNION {[1..n -> Digits] : n \in 0..MaxFraction}

Text ==
    [sign : {"", "-", "+"}, whole : Wholes \cup {Missing, Garbage},
     dot : {TRUE}, frac : Fractions]
    \cup [sign : {"", "-", "+"}, whole : Wholes \cup {Missing, Garbage},
          dot : {FALSE}, frac : {<<>>}]

(* The Numerics a column with the given scale can give for an amount. *)
Stored(n, scale) ==
    {[int |-> n * pow10(extra), exp |-> 0 - scale - extra] : extra \in 0..1}
        \cup {[int |-> n \div pow10(cut), exp |-> cut - scale] :
                 cut \in {c \in 1..(scale + 1) : n % pow10(c) = 0}}

StoredMoney == UNION {Stored(n, 2) : n \in Cents}
StoredQuantity == UNION {Stored(n, 3) : n \in Thousandths}

(* What texts and Numerics mean, in 1/10^(MaxFraction + 3). *)
Meaning(t) ==
    t.whole * pow10(MaxFraction + 3)
        + FractionValue(t.frac) * pow10(MaxFraction + 3 - Len(t.frac))
Worth(v) == v.int * pow10(v.exp + MaxFraction + 3)

WellFormed(t) ==
    t.sign = "" /\ t.whole >= 0 /\ (t.dot <=> t.frac # <<>>)

-----------------------------------------------------------------------------
(* Before the sale begins, a caller may hand one sample to the converters  *)
(* and the rules.                                                          *)

VARIABLE sample

Samples ==
    [of : {"amounts"}, price : StoredMoney, quantity : StoredQuantity]
        \cup [of : {"text"}, text : Text]
        \cup [of : {"method"}, input : AcceptedInputs]

Nothing == [of |-> "nothing"]

TrySample ==
    /\ sample = Nothing
    /\ header = Fresh /\ used = {} /\ changes = 0
    /\ sample' \in Samples
    /\ UNCHANGED vars

MoneyInit == Init /\ sample = Nothing

MoneyNext ==
    \/ Next /\ sample = Nothing /\ UNCHANGED sample
    \/ TrySample

MoneySpec == MoneyInit /\ [][MoneyNext]_<<vars, sample>>

-----------------------------------------------------------------------------
(* Properties. *)

(* sales, checkout and receipt compute the same cents for a line, whatever *)
(* exponents the driver delivers, and it is what the CHECK constraints     *)
(* compute.  The line is rounded once, to the nearest cent, a half going   *)
(* up (the exact product is in 1/1000 cent).  Every package shows a stored *)
(* value as the same text and fails on none: sales (with checkout, receipt *)
(* and payments), catalog, products, inventory.                            *)
AmountsAgree ==
    sample.of = "amounts" =>
        LET price == sample.price
            quantity == sample.quantity
            inSales == multiplyMoneyQuantity(price, quantity)
            cents == numericToScaledInt(inSales, 2)
            exact == numericToScaledInt(price, 2) * numericToScaledInt(quantity, 3)
            money == scaledIntToString(numericToScaledInt(price, 2), 2)
            amount == scaledIntToString(numericToScaledInt(quantity, 3), 3)
        IN  /\ compareMoney(inSales, checkoutMultiply(price, quantity)) = 0
            /\ compareMoney(inSales, receiptMultiply(price, quantity)) = 0
            /\ cents = DatabaseRound(price, quantity)
            /\ 2 * (1000 * cents - exact) <= 1000
            /\ 2 * (exact - 1000 * cents) < 1000
            /\ numericToFixedScaleString(price, 2) = money
            /\ formatMoneyString(DriverValue(price)) = money
            /\ numericToFixedScaleString(quantity, 3) = amount
            /\ inventoryQuantityString(quantity) = amount
            /\ Worth(ScanScientific(numericString(price))) = Worth(price)

(* A quantity is accepted exactly if it is positive and a whole number of  *)
(* thousandths, however it is written, and then keeps its value.  An       *)
(* amount of money that is accepted keeps its value and prints, from its   *)
(* column, as an amount that reads the same.  Both readers refuse          *)
(* malformed texts.                                                        *)
TextsReadExactly ==
    sample.of = "text" =>
        LET text == sample.text
            quantity == parseQuantity(text)
            money == parseMoney(text)
        IN  /\ WellFormed(text) =>
                  (quantity # NoNumeric)
                     <=> (Meaning(text) > 0 /\ Meaning(text) % pow10(MaxFraction) = 0)
            /\ ~WellFormed(text) => quantity = NoNumeric /\ money = NoNumeric
            /\ quantity # NoNumeric => Worth(quantity) = Meaning(text)
            /\ money # NoNumeric =>
                  /\ Worth(money) = Meaning(text)
                  /\ \A v \in Stored(numericToScaledInt(money, 2), 2) :
                        parseMoney(formatMoneyString(DriverValue(v))) = money

(* What the service accepts as a payment method obeys the constraints of   *)
(* the table, and sending back what was shown changes nothing: see         *)
(* RuleHolds.                                                              *)
MethodRulesHold == sample.of = "method" => RuleHolds(sample.input)
=============================================================================
