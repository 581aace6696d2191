CONSTANTS
    m1 = m1
    p1 = p1
    i1 = i1
    i2 = i2
    ItemIds = {i1, i2}
    Products = {p1}
    Methods = {m1}
    Prices = {1, 3}
    Quantities = {300, 500}
    Discounts = {0, 1, 2}
    MaxChanges = 1
    Tenders <- TheTenders
    Cents = {0, 1, 3, 5, 10, 99, 100, 250, 1005}
    Thousandths = {1, 5, 50, 125, 333, 500, 999, 1000, 1500, 2000}
    Wholes = {0, 1, 20}
    Digits = {0, 1, 5}
    MaxFraction = 5
SPECIFICATION MoneySpec
INVARIANTS AmountsAgree TextsReadExactly MethodRulesHold RefusedOnlyAtHalfCents CheckoutAgreesWithSales CompletedIsPaid
CHECK_DEADLOCK FALSE
