------------------------------- MODULE Pricing -------------------------------
(***************************************************************************)
(* The prices of a product: what customers pay is computed from the        *)
(* store's price, the margin and the discount, never taken from a form.    *)
(*                                                                         *)
(* Money is an integer number of paise, as the columns with two decimals   *)
(* hold it; a percentage is an integer number of hundredths of a percent.  *)
(***************************************************************************)
EXTENDS Integers

CONSTANT NoPrice        \* selling_price and final_price without a margin: NULL

ASSUME NoPriceAssumption == NoPrice \notin Int

\* A margin or discount type, and what it is combined with a price to; the
\* empty type is a margin not yet set, or no discount.
Unset == [type |-> "", value |-> 0]
Whole == 10000          \* 100 percent

\* quantize_money: n/d to the nearest paisa, halves up (n is not negative).
RoundHalfUp(n, d) == (2 * n + d) \div (2 * d)

Adjustment(types) == [type : types, value : Nat]
MarginSet(margin) == margin.type \in {"FIXED", "PERCENTAGE"}

\* What calculate_selling_price accepts.
MarginAllowed(storePrice, margin) ==
    /\ storePrice >= 0 /\ margin.value >= 0
    /\ MarginSet(margin)
    /\ margin.type = "PERCENTAGE" => margin.value <= Whole

\* calculate_selling_price, for what it accepts.
CalculateSellingPrice(storePrice, margin) ==
    IF margin.type = "PERCENTAGE"
    THEN RoundHalfUp(storePrice * (Whole + margin.value), Whole)
    ELSE storePrice + margin.value

\* What calculate_final_price accepts.
DiscountAllowed(selling, discount) ==
    /\ selling >= 0 /\ discount.value >= 0
    /\ discount.type \in {"", "FIXED", "PERCENTAGE"}
    /\ discount.type = "PERCENTAGE" => discount.value <= Whole
    /\ discount.type = "FIXED" => discount.value <= selling

\* calculate_final_price, for what it accepts.
CalculateFinalPrice(selling, discount) ==
    CASE discount.type = "" -> selling
      [] discount.type = "PERCENTAGE" -> RoundHalfUp(selling * (Whole - discount.value), Whole)
      [] discount.type = "FIXED" -> selling - discount.value

\* Mutant: what the calculation returns is not checked.
CanCalculateUnchecked(storePrice, margin, discount) == MarginAllowed(storePrice, margin)

\* calculate_prices: accepted, and both results above zero.
CanCalculatePrices(storePrice, margin, discount) ==
    /\ MarginAllowed(storePrice, margin)
    /\ LET selling == CalculateSellingPrice(storePrice, margin)
       IN  /\ selling > 0
           /\ DiscountAllowed(selling, discount)
           /\ discount.type # "" => CalculateFinalPrice(selling, discount) > 0

CalculatePrices(storePrice, margin, discount) ==
    LET selling == CalculateSellingPrice(storePrice, margin)
    IN  [selling |-> selling, final |-> CalculateFinalPrice(selling, discount)]

\* apply_calculated_prices: without a margin there is no price; with one that
\* does not fit the store's price the save is refused.
PricesFit(storePrice, margin, discount) ==
    MarginSet(margin) => CanCalculatePrices(storePrice, margin, discount)

AppliedPrices(storePrice, margin, discount) ==
    IF MarginSet(margin)
    THEN CalculatePrices(storePrice, margin, discount)
    ELSE [selling |-> NoPrice, final |-> NoPrice]
=============================================================================
