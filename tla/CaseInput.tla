----------------------------- MODULE CaseInput -----------------------------
(***************************************************************************)
(* Amounts on their way from the field they are typed in to the database,  *)
(* and the sums made of them: form-input.ts, create-case-input.ts,         *)
(* get-case.ts, insurance-arbitration/input.ts, finance-calculations.ts of *)
(* apps/web/src/lib, the money fields of the forms and the CHECK           *)
(* constraints of prisma/migrations.  All amounts are cents.               *)
(*                                                                         *)
(* The text of an amount is its digits before the mark, whether dots group *)
(* them, the mark (a comma, a dot or none) and the digits after it.        *)
(***************************************************************************)
EXTENDS Null, Integers, Sequences, FiniteSets

CONSTANTS
    Texts,        \* what is typed into or pasted to a field
    MaxMoney,     \* MAX_MONEY, MONEY_MAX_CENTS
    MaxTyped,     \* bound: what digits are typed behind
    Inputs        \* the enforcement forms that are filled in

Digits == 0 .. 9
Marks == {"none", "comma", "dot"}
MoneyTexts == [whole : Nat, dots : BOOLEAN, mark : Marks, fraction : Seq(Digits)]
ASSUME InputAssumption ==
    /\ MaxMoney \in Nat /\ Nothing \notin Nat \cup Inputs
    /\ Texts \subseteq MoneyTexts
    /\ \A t \in Texts : t.mark = "none" => t.fraction = << >>
    /\ Inputs \subseteq
           [claims : SUBSET {"damage", "depreciation", "profit"}, damage : Nat,
            depreciation : Nat, days : Nat, daily : Nat, interest : Nat, discount : Nat,
            installments : Nat \cup {Nothing}, office : BOOLEAN, number : BOOLEAN]

VARIABLES
    amount,       \* the field of an amount: [form, text, stored, refused]
    claimed       \* the enforcement form: [input, record]

inputVars == <<amount, claimed>>

\* The amount fields of an enforcement case show stored amounts in Turkish writing,
\* those of the others as the database writes them.
AmountForms == {"enforcement", "insurance", "general"}

-----------------------------------------------------------------------------
(* Texts                                                                   *)

AppendDigits(n, digits) ==
    IF Len(digits) = 0 THEN n
    ELSE IF Len(digits) = 1 THEN n * 10 + digits[1]
    ELSE IF Len(digits) = 2 THEN n * 100 + digits[1] * 10 + digits[2]
    ELSE n * 1000 + digits[1] * 100 + digits[2] * 10 + digits[3]
CentsOf(fraction) ==
    IF Len(fraction) = 0 THEN 0
    ELSE IF Len(fraction) = 1 THEN fraction[1] * 10
    ELSE fraction[1] * 10 + fraction[2]
Whole(n) == [whole |-> n, dots |-> n >= 1000, mark |-> "none", fraction |-> << >>]

\* formatMoneyInput: dots go, digits are grouped anew, two digits after a comma.
FormatMoneyInput(t) ==
    IF t.mark = "comma"
    THEN [whole |-> t.whole, dots |-> t.whole >= 1000, mark |-> "comma",
          fraction |-> SubSeq(t.fraction, 1, IF Len(t.fraction) < 2 THEN Len(t.fraction)
                                             ELSE 2)]
    ELSE Whole(AppendDigits(t.whole, t.fraction))

\* parseMoneyToCents: one or two digits after the last mark are cents, three are
\* thousands, none are an error.
ParseMoneyToCents(t) ==
    LET cents == IF Len(t.fraction) > 2 THEN AppendDigits(t.whole, t.fraction) * 100
                 ELSE t.whole * 100 + CentsOf(t.fraction)
    IN  IF (t.mark # "none" /\ t.fraction = << >>) \/ cents > MaxMoney
        THEN Nothing ELSE cents

\* money of insurance-arbitration/input.ts: dots group digits only before a comma;
\* else the text is a decimal number.  The column rounds to cents.
DecimalNumber(t) ==
    LET third == IF Len(t.fraction) > 2 /\ t.fraction[3] >= 5 THEN 1 ELSE 0
        cents == IF t.dots /\ t.mark = "none" THEN (t.whole + 5) \div 10
                 ELSE t.whole * 100 + CentsOf(t.fraction) + third
    IN  IF \/ t.dots /\ t.mark # "comma" /\ (t.mark = "dot" \/ t.whole >= 1000000)
           \/ cents > MaxMoney
        THEN Nothing ELSE cents

CentsToMoneyString(c) ==
    [whole |-> c \div 100, dots |-> c \div 100 >= 1000, mark |-> "comma",
     fraction |-> <<(c % 100) \div 10, c % 10>>]
ToFixed(c) == [CentsToMoneyString(c) EXCEPT !.dots = FALSE, !.mark = "dot"]

-----------------------------------------------------------------------------
(* A field                                                                 *)

InputInit ==
    /\ amount \in [form : AmountForms, text : {Whole(0)}, stored : {Nothing},
                   refused : {FALSE}]
    /\ claimed = [input |-> Nothing, record |-> Nothing]

\* onChange, for what is typed and for a digit more behind what is there.
TypeAmount ==
    /\ \E t \in Texts : amount' = [amount EXCEPT !.text = FormatMoneyInput(t),
                                                 !.stored = Nothing, !.refused = FALSE]
    /\ UNCHANGED claimed
TypeDigit ==
    LET t == amount.text IN
    /\ t.whole < MaxTyped /\ Len(t.fraction) < 3
    /\ \E d \in {0, 5} :
           LET longer == IF t.mark = "none"
                         THEN [t EXCEPT !.whole = @ * 10 + d]
                         ELSE [t EXCEPT !.fraction = Append(@, d)]
           IN amount' = [amount EXCEPT !.text = FormatMoneyInput(longer),
                                       !.stored = Nothing, !.refused = FALSE]
    /\ UNCHANGED claimed

\* onBlur of AmountInput; the fields of the other forms have none.
LeaveField ==
    LET cents == ParseMoneyToCents(amount.text) IN
    /\ amount.form = "enforcement" /\ cents # Nothing
    /\ amount' = [amount EXCEPT !.text = CentsToMoneyString(cents)]
    /\ UNCHANGED claimed

FractionCutOff(t) ==                                                  \* mutant
    IF t.mark # "none" /\ t.fraction = << >> THEN Nothing ELSE t.whole * 100
ServerReading(t) == ParseMoneyToCents(t)
SaveAmount ==
    LET cents == IF amount.form = "insurance" THEN DecimalNumber(amount.text)
                 ELSE ServerReading(amount.text)
    IN
    /\ amount' = [amount EXCEPT !.stored = cents, !.refused = cents = Nothing]
    /\ UNCHANGED claimed
LoadAmount ==
    /\ amount.stored # Nothing
    /\ amount' = [amount EXCEPT !.stored = Nothing,
           !.text = IF amount.form = "enforcement" THEN CentsToMoneyString(amount.stored)
                    ELSE ToFixed(amount.stored)]
    /\ UNCHANGED claimed

-----------------------------------------------------------------------------
(* An enforcement case                                                     *)

Profit(i) == IF "profit" \in i.claims THEN i.days * i.daily ELSE 0

\* What the form sends, and the sums it shows, in which the amounts of claims that
\* are no longer ticked still count.
Sent(i) ==
    [damage |-> IF "damage" \in i.claims THEN i.damage ELSE 0,
     depreciation |-> IF "depreciation" \in i.claims THEN i.depreciation ELSE 0,
     profit |-> Profit(i), interest |-> i.interest, discount |-> i.discount,
     days |-> IF "profit" \in i.claims THEN i.days ELSE Nothing,
     daily |-> IF "profit" \in i.claims THEN i.daily ELSE Nothing,
     installments |-> i.installments, office |-> i.office, number |-> i.number,
     claims |-> i.claims]
Monthly(net, n) == net \div n
Final(net, n) == Monthly(net, n) + (net % n)
FormSums(i) ==
    LET total == i.damage + i.depreciation + Profit(i) + i.interest
        net == IF total > i.discount THEN total - i.discount ELSE 0
        n == IF i.installments \in 1 .. 12 THEN i.installments ELSE Nothing
    IN  [total |-> total, net |-> net,
         monthly |-> IF n = Nothing THEN Nothing ELSE Monthly(net, n),
         final   |-> IF n = Nothing THEN Nothing ELSE Final(net, n)]
HidesAmount(i) == \/ "damage" \notin i.claims /\ i.damage # 0
                  \/ "depreciation" \notin i.claims /\ i.depreciation # 0

LossDays == 1 .. 36500
\* validateCaseRules and validateEditableCaseRules with the ranges of the schema.
TotalOf(s) == s.damage + s.depreciation + s.profit + s.interest
DiscountFits(s) == s.discount <= TotalOf(s)
DiscountIsAnAmount(s) == s.discount <= MaxMoney                       \* mutant
DiscountRule(s) == DiscountFits(s)
Accepted(s) ==
    /\ s.installments = Nothing \/ s.installments \in 1 .. 12
    /\ s.office <=> s.number
    /\ TotalOf(s) <= MaxMoney /\ DiscountRule(s)
    /\ s.claims # {}
    /\ "damage" \notin s.claims => s.damage = 0
    /\ "depreciation" \notin s.claims => s.depreciation = 0
    /\ IF "profit" \in s.claims
       THEN s.days \in LossDays /\ s.daily # 0 /\ s.profit = s.days * s.daily
       ELSE s.profit = 0 /\ s.days = Nothing /\ s.daily = Nothing

\* calculateCaseFinancials; get-case.ts works the last installment out another way.
ServerSums(s) ==
    LET net == TotalOf(s) - s.discount
        n == s.installments
    IN  [total |-> TotalOf(s), net |-> net,
         monthly |-> IF n = Nothing THEN Nothing ELSE Monthly(net, n),
         final   |-> IF n = Nothing THEN Nothing ELSE Final(net, n)]
ShownSums(s) ==
    LET sums == ServerSums(s) IN
    [sums EXCEPT !.final = IF @ = Nothing THEN @
                           ELSE sums.net - sums.monthly * (s.installments - 1)]

\* The CHECK constraints of case_file, and what a column can hold.
Storable(s) ==
    /\ \A x \in {s.damage, s.depreciation, s.profit, s.interest, s.discount} :
           x \in 0 .. MaxMoney
    /\ s.discount <= TotalOf(s)
    /\ s.installments = Nothing \/ s.installments \in 1 .. 12
    /\ s.days = Nothing \/ s.days \in LossDays
    /\ s.daily = Nothing \/ s.daily >= 0

\* One form, filled in once: another would find nothing of it.
FillClaim ==
    /\ claimed.input = Nothing
    /\ \E i \in Inputs : claimed' = [input |-> i, record |-> Nothing]
    /\ UNCHANGED amount
SaveClaimAmounts ==
    /\ claimed.input # Nothing /\ Accepted(Sent(claimed.input))
    /\ claimed' = [claimed EXCEPT !.record = Sent(claimed.input)]
    /\ UNCHANGED amount

AmountNext == TypeAmount \/ TypeDigit \/ LeaveField \/ SaveAmount \/ LoadAmount
ClaimNext == FillClaim \/ SaveClaimAmounts
InputNext == AmountNext \/ ClaimNext
InputSpec == InputInit /\ [][InputNext]_inputVars

-----------------------------------------------------------------------------
(* Properties                                                              *)

SentForms == {Sent(i) : i \in Inputs}
InputTypeOK ==
    /\ amount \in [form : AmountForms, text : MoneyTexts,
                   stored : Nat \cup {Nothing}, refused : BOOLEAN]
    /\ amount.stored # Nothing => amount.stored <= MaxMoney
    /\ claimed \in [input : Inputs \cup {Nothing}, record : SentForms \cup {Nothing}]

\* "1.250" is 1250.00: what is stored is the amount that the application itself reads
\* in the text (tests/case-input.test.ts:158-165).
AmountReadIsStored ==
    amount.stored # Nothing =>
        ParseMoneyToCents(amount.text) \in {amount.stored, Nothing}

\* The same, except for an insurance case's amount that has grouping dots and no comma.
AmountStoredAsRead ==
    \/ amount.form = "insurance" /\ amount.text.dots /\ amount.text.mark = "none"
    \/ AmountReadIsStored

\* Every enforcement case that is accepted can be stored; the sums the form showed,
\* the server computes and the case shows later are the same, and the installments add
\* up to the net amount.  Excepted are the form's sums while it hides an amount.
SumsAgree ==
    claimed.record # Nothing =>
        LET s == claimed.record
            sums == ServerSums(s)
        IN  /\ Storable(s)
            /\ sums.net >= 0 /\ ShownSums(s) = sums
            /\ HidesAmount(claimed.input) \/ FormSums(claimed.input) = sums
            /\ s.installments # Nothing =>
                   sums.net = sums.monthly * (s.installments - 1) + sums.final
=============================================================================
