------------------------ MODULE PaymentMethodRules ------------------------
(***************************************************************************)
(* The rules of a payment method: what normalizePaymentMethodInput accepts *)
(* and what the CHECK constraints of payment_methods accept.  A client     *)
(* creates a method and edits it by sending back what it was shown; the    *)
(* statements are functions of the row and the input.                      *)
(***************************************************************************)
EXTENDS Integers

PaymentMethodKind ==
    {"CASH", "PIX", "DEBIT_CARD", "CREDIT_CARD", "VOUCHER", "STORE_CREDIT", "OTHER"}

(* A fee as text is its value in units of 10^-5 and its decimal places;    *)
(* the empty text has -1 places.                                           *)
FeeText ==
    {[value |-> 0, places |-> 0 - 1], [value |-> 0, places |-> 0],
     [value |-> 1250000, places |-> 2], [value |-> 100001, places |-> 5]}

UpsertPaymentMethodInput ==
    [code : {"text", "blank"}, kind : PaymentMethodKind \cup {"unknown"},
     provider : {"null", "blank", "text"}, allowsChange : BOOLEAN, requiresExternalReference : BOOLEAN,
     allowsInstallments : BOOLEAN, maxInstallments : 0..2,
     feePercentage : FeeText, settlementDays : {0 - 1, 0, 7},
     isActive : {"null", "TRUE", "FALSE"}]

(* Constraints payment_methods_*: change_only_cash, installments,          *)
(* external_reference_provider, non-negative and not-blank columns.        *)
Constraints(m) ==
    /\ m.code # "blank"
    /\ m.allowsChange => m.kind = "CASH"
    /\ \/ m.allowsInstallments /\ m.kind = "CREDIT_CARD" /\ m.maxInstallments > 1
       \/ ~m.allowsInstallments /\ m.maxInstallments = 1
    /\ m.requiresExternalReference => m.provider \notin {"null", "blank"}
    /\ m.settlementDays >= 0
    /\ m.feePercentage >= 0 /\ m.feePercentage % 10 = 0       \* NUMERIC(7, 4)

(* At most four places; the empty text stands for zero. *)
decimalPattern(fee) == fee.places <= 4

Accepted(input) ==
    /\ input.code = "text" /\ input.kind \in PaymentMethodKind
    /\ input.provider \in {"null", "text"}
    /\ input.allowsChange => input.kind = "CASH"
    /\ input.requiresExternalReference => input.provider = "text"
    /\ IF input.allowsInstallments
       THEN input.kind = "CREDIT_CARD" /\ input.maxInstallments > 1
       ELSE input.maxInstallments = 1
    /\ decimalPattern(input.feePercentage) /\ input.settlementDays >= 0

AcceptedInputs == {input \in UpsertPaymentMethodInput : Accepted(input)}

(* An absent isActive is TRUE for a new method, FALSE for an edited one;   *)
(* the text of the fee becomes a number.                                   *)
normalizePaymentMethodInput(input, creating) ==
    [input EXCEPT !.isActive = IF input.isActive # "null" THEN input.isActive
                               ELSE IF creating THEN "TRUE" ELSE "FALSE",
                  !.feePercentage = input.feePercentage.value]

(* The shortest text of a value: zeros at the end are cut off. *)
feeString(value) ==
    [value |-> value,
     places |-> CHOOSE p \in 0..5 : /\ value % 10^(5 - p) = 0
                                    /\ \A q \in 0..(p - 1) : value % 10^(5 - q) # 0]

toPaymentMethodResponse(m) == [m EXCEPT !.feePercentage = feeString(m.feePercentage)]

-----------------------------------------------------------------------------
(* The row after a statement. *)

CreatePaymentMethodForOrganization(input) == normalizePaymentMethodInput(input, TRUE)

(* Mutant: the statement also writes is_active. *)
UpdateWithActivity(row, input) == normalizePaymentMethodInput(input, FALSE)

(* The statement does not write is_active, whatever was normalized. *)
UpdatePaymentMethodForOrganization(row, input) ==
    [normalizePaymentMethodInput(input, FALSE) EXCEPT !.isActive = row.isActive]

-----------------------------------------------------------------------------
(* Properties. *)

(* What the service accepts never fails on a constraint of the table       *)
(* (TestNormalizePaymentMethodEnforcesDatabaseRules), and an editor may    *)
(* send back what it was shown, with or without isActive: the edit is      *)
(* accepted and leaves the row as it was, so that it neither loses a digit *)
(* of the fee nor switches the method (only the other handler looks for    *)
(* the last active method).                                                *)
RuleHolds(input) ==
    LET row == CreatePaymentMethodForOrganization(input)
        shown == toPaymentMethodResponse(row)
    IN  /\ Constraints(row)
        /\ \A back \in {shown, [shown EXCEPT !.isActive = "null"]} :
              /\ Accepted(back)
              /\ UpdatePaymentMethodForOrganization(row, back) = row
=============================================================================
