------------------------------ MODULE ExchangeRate ------------------------------
(* The currency tool of a trip (CurrencyExchangeWidget): a rate that is kept  *)
(* in the browser, asked for on the web, or typed in, and two amounts, the    *)
(* one of which is converted when the other is typed.  A request that is      *)
(* aborted has no effect any more; one that takes too long counts as failed.  *)
(* The tool counts with all digits of a rate, and shows two decimals of one   *)
(* that was just answered: an even n stands for a rate of two decimals, an    *)
(* odd one for a rate with more, which is shown as the next even one.         *)
EXTENDS Integers

CONSTANTS
    Currencies,
    Typist,     \* whoever typed a rate
    Closed,     \* no tool is open
    Slots,      \* requests that may be in flight at once
    MaxRate     \* bound: rates of a currency

(* What a theorem about this module assumes of the constants.                 *)
ConstantsOK == Closed \notin Currencies /\ MaxRate \in Nat

VARIABLES
    code,           \* config.code, or Closed
    rate, input,    \* exchangeRate; the number in its field, rateInput
    status,
    filled,         \* the amounts that are there
    calls,
    cache           \* the browser: the rates that are kept and not too old

(* History: the rate that the amounts on the screen were converted by; the    *)
(* rate was replaced by an answer since; the kept rate was replaced, or the   *)
(* rate on the screen could not be kept.                                      *)
VARIABLES conv, late, foreign

vars == <<code, rate, input, status, filled, calls, cache, conv, late, foreign>>

NoRate == [of |-> Closed, n |-> 0]
RatesOf(c) == [of: {c}, n: 1..MaxRate]
RatesTo(n) == [of: Currencies \cup {Typist}, n: 1..n] \cup {NoRate}

(* String(Number(rate.toFixed(2)))                                            *)
Rounded(r) == [r EXCEPT !.n = 2 * ((@ + 1) \div 2)]
Free == Closed

TypeOK ==
    /\ code \in Currencies \cup {Closed}
    /\ {rate, conv} \subseteq RatesTo(MaxRate) /\ input \in RatesTo(MaxRate + 1)
    /\ status \in {"loading", "live", "cached", "manual", "error"}
    /\ filled \subseteq {"foreign", "krw"}
    /\ calls \in [Slots -> Currencies \cup {Free}]
    /\ cache \in [Currencies -> [of: Currencies, n: 1..MaxRate] \cup {NoRate}]
    /\ \A c \in Currencies : cache[c] \in RatesOf(c) \cup {NoRate}
    /\ {late, foreign} \subseteq BOOLEAN

-----------------------------------------------------------------------------
Aborted == [s \in Slots |-> Free]

FetchRealtimeRate(c) ==
    /\ \E s \in Slots : Aborted[s] = Free /\ calls' = [Aborted EXCEPT ![s] = c]
    /\ status' = "loading"

(* The effect: when the tool opens, or the trip is one to another country.    *)
Open(c) ==
    /\ c # code
    /\ code' = c
    /\ rate' = cache[c] /\ input' = cache[c]
    /\ filled' = {}
    /\ FetchRealtimeRate(c)
    /\ conv' = NoRate /\ late' = FALSE /\ foreign' = FALSE
    /\ UNCHANGED cache

Close ==
    /\ code # Closed
    /\ code' = Closed
    /\ rate' = NoRate /\ input' = NoRate /\ status' = "loading" /\ filled' = {}
    /\ calls' = Aborted
    /\ conv' = NoRate /\ late' = FALSE /\ foreign' = FALSE
    /\ UNCHANGED cache

Refresh ==
    /\ code # Closed /\ status # "loading"
    /\ FetchRealtimeRate(code)
    /\ UNCHANGED <<code, rate, input, filled, cache, conv, late, foreign>>

(* The rate is kept with all its digits, where the browser can, and shown     *)
(* rounded.  The amounts stay as they are.                                    *)
RateArrives(s) ==
    \E r \in RatesOf(calls[s]) :
      /\ rate' = r /\ input' = Rounded(r)
      /\ status' = "live"
      /\ \/ cache' = [cache EXCEPT ![calls[s]] = r] /\ foreign' = FALSE
         \/ UNCHANGED cache /\ foreign' = TRUE

(* Refused, unreadable or too late: the kept rate, or none; the field keeps   *)
(* what was typed.                                                            *)
RateFails(s) ==
    LET cached == cache[calls[s]] IN
    /\ rate' = cached
    /\ IF cached # NoRate
       THEN input' = cached /\ status' = "cached" /\ foreign' = FALSE
       ELSE status' = "error" /\ UNCHANGED <<input, foreign>>
    /\ UNCHANGED cache

Answered(s) ==
    /\ calls[s] # Free
    /\ RateArrives(s) \/ RateFails(s)
    /\ calls' = [calls EXCEPT ![s] = Free]
    /\ late' = (conv # NoRate /\ conv # rate')
    /\ UNCHANGED <<code, filled, conv>>

(* A request in flight is not aborted.                                        *)
HandleRateChange(r) ==
    /\ code # Closed
    /\ rate' = r /\ input' = r
    /\ status' = "manual"
    /\ filled' = IF r = NoRate THEN filled \ {"krw"}
                 ELSE IF "foreign" \in filled THEN {"foreign", "krw"} ELSE {}
    /\ conv' = IF r # NoRate /\ "foreign" \in filled THEN r ELSE NoRate
    /\ late' = FALSE
    /\ UNCHANGED <<code, calls, cache, foreign>>

(* handleForeignChange, handleQuickAdd and handleKrwChange: an amount that is *)
(* no number empties both.                                                    *)
ChangeAmount(amount, other) ==
    /\ code # Closed
    /\ \/ filled' = {amount} \cup (IF rate # NoRate THEN {other} ELSE {}) /\ conv' = rate
       \/ filled' = {} /\ conv' = NoRate
    /\ late' = FALSE
    /\ UNCHANGED <<code, rate, input, status, calls, cache, foreign>>

HandleForeignChange == ChangeAmount("foreign", "krw")
HandleKrwChange == ChangeAmount("krw", "foreign")

(* A week passes, another tab keeps a rate.                                   *)
CacheChanges(c) ==
    \E r \in RatesOf(c) \cup {NoRate} :
      /\ r # cache[c]
      /\ cache' = [cache EXCEPT ![c] = r]
      /\ foreign' = (foreign \/ c = code)
      /\ UNCHANGED <<code, rate, input, status, filled, calls, conv, late>>

-----------------------------------------------------------------------------
Init ==
    /\ code = Closed
    /\ rate = NoRate /\ input = NoRate /\ status = "loading" /\ filled = {}
    /\ calls = [s \in Slots |-> Free]
    /\ cache = [c \in Currencies |-> NoRate]
    /\ conv = NoRate /\ late = FALSE /\ foreign = FALSE

Next ==
    \/ \E c \in Currencies : Open(c) \/ CacheChanges(c)
    \/ Close \/ Refresh
    \/ \E s \in Slots : Answered(s)
    \/ \E r \in RatesOf(Typist) \cup {NoRate} : HandleRateChange(r)
    \/ HandleForeignChange \/ HandleKrwChange

Spec == Init /\ [][Next]_vars

(* Every request is answered, or given up after eight seconds.                *)
FairSpec == Spec /\ \A s \in Slots : WF_vars(Answered(s))

-----------------------------------------------------------------------------
(* Properties.                                                                *)

(* Whatever was typed, refreshed or reopened while a rate was on its way:     *)
(* "latest" and "saved" stand over a rate of the currency that is shown,      *)
(* "typed" over a typed one.  The field shows the rate in use: rounded under  *)
(* "latest", with all its digits under "saved", as it was typed under         *)
(* "typed".                                                                   *)
LabelIsTrue ==
    /\ status \in {"live", "cached"} => rate.of = code /\ rate # NoRate
    /\ status = "manual" => rate.of \in {Typist, NoRate.of}
    /\ status = "error" => rate = NoRate
    /\ status = "live" => input = Rounded(rate)
    /\ status \in {"cached", "manual"} => input = rate

(* Two amounts on the screen go by the rate in use, of which the field may    *)
(* show fewer digits, until an answer replaces it.                            *)
AmountsMatchRate == conv # NoRate /\ ~late => conv = rate

(* Whoever opens the tool again converts by the rate it converts by now,      *)
(* whether an answer or the browser brought it: it is kept as it is used, not *)
(* as it is shown.  The field then shows all of its digits.                   *)
ReopenConvertsTheSame == status \in {"live", "cached"} /\ ~foreign => cache[code] = rate

(* Why these hold: a request that is not aborted asks for the currency that   *)
(* is shown, so that its answer is a rate of that currency, or the kept one.  *)
CallsAreForCode == \A s \in Slots : calls[s] # Free => calls[s] = code
RateInv ==
    /\ TypeOK
    /\ CallsAreForCode
    /\ code = Closed => status = "loading"
    /\ LabelIsTrue
    /\ AmountsMatchRate
    /\ ReopenConvertsTheSame

(* Refreshing is possible again in the end, whatever the web answers.         *)
Locks == Currencies
Locked(lock) == code = lock /\ status = "loading"
RefreshUnlocks == \A lock \in Locks : []<>~Locked(lock)
================================================================================
