---------------------------- MODULE MultiCurrency ----------------------------
(***************************************************************************)
(* pages/customer/MultiCurrency.jsx: a wallet, live rates and a converter. *)
(* The inputs stay live while a conversion is under way.                   *)
(***************************************************************************)
EXTENDS Screen

CONSTANTS
  Currencies,  \* the codes on offer; contains USD and EUR, the first choice
  Sums         \* what may be typed as an amount, "" and the first one included

ASSUME CurrenciesAssumption == {"USD", "EUR"} \subseteq Currencies /\ {"", "1000"} \subseteq Sums

NoResult == [from |-> "", to |-> "", amount |-> ""]

FxState ==
  [wallet |-> "empty", currencies |-> {}, from |-> "USD", to |-> "EUR", amount |-> "1000",
   result |-> NoResult, converting |-> FALSE]

FxHooks ==
  [wallet: {"empty", "server", "demo"}, currencies: {{}, Currencies}, from: Currencies, to: Currencies,
   amount: Sums, result: [from: Currencies, to: Currencies, amount: Sums] \union {NoResult},
   converting: BOOLEAN]

\* What the converter asks for, and what a result belongs to.
Inputs(h) == [from |-> h.from, to |-> h.to, amount |-> h.amount]

FxRows == {[wallet |-> w] : w \in {"server", "none"}}

\* Convert is disabled while it converts, the inputs are not.
FxControls(h) == {"amount", "swap"} \union (IF h.currencies # {} THEN {"from", "to"} ELSE {})
                                    \union (IF h.converting THEN {} ELSE {"convert"})

FxOffers(control) == screen = "fx" /\ control \in FxControls(hooks)

\* Wallet and rates are fetched together and replaced by demo data one by one;
\* the call for the wallet stands for both.
FxMount == Mount("fx", FxState, <<Get("fxWallet", "wallet")>>)

FxLoaded(i) ==
  /\ calls[i].op = "fxWallet" /\ ~Unanswered(i)
  /\ Resolve(i, [hooks EXCEPT !.wallet = IF calls[i].reply.value = "server" THEN "server" ELSE "demo",
                              !.currencies = Currencies], <<>>)
  /\ UNCHANGED timers

\* The interval moves the rates and puts the demo wallet in the place of the real one.
FxTick ==
  screen = "fx" /\ Set([hooks EXCEPT !.currencies = Currencies, !.wallet = "demo"])

\* Every change of an input takes the result away.  History: it was changed
\* while a conversion was under way, whose result comes yet.
FxChange(h) ==
  /\ hooks' = [h EXCEPT !.result = NoResult]
  /\ past' = IF hooks.converting THEN past \union {"edited"} ELSE past \ {"edited"}
  /\ UNCHANGED <<screen, calls, timers, server>>

FxInput ==
  \/ \E a \in Sums : FxOffers("amount") /\ FxChange([hooks EXCEPT !.amount = a])
  \/ \E c \in Currencies : FxOffers("from") /\ FxChange([hooks EXCEPT !.from = c])
  \/ \E c \in Currencies : FxOffers("to") /\ FxChange([hooks EXCEPT !.to = c])
  \/ FxOffers("swap") /\ FxChange([hooks EXCEPT !.from = hooks.to, !.to = hooks.from])

FxConvert ==
  /\ FxOffers("convert") /\ hooks.amount # ""
  /\ SetAndSend([hooks EXCEPT !.converting = TRUE], <<Post("convert", Inputs(hooks))>>)

ConvertServe(i) == calls[i].op = "convert" /\ Write(i, "convert", server, calls[i].arg)

\* Faulty form: the answer is used although the request failed.
FxConvertedRaw(i) ==
  /\ calls[i].op = "convert" /\ ~Unanswered(i)
  /\ Resolve(i, [hooks EXCEPT !.result = calls[i].reply.value, !.converting = FALSE], <<>>)
  /\ UNCHANGED timers

\* A failed request is computed in the browser, from the inputs it was made with.
FxConverted(i) ==
  /\ calls[i].op = "convert" /\ ~Unanswered(i)
  /\ Resolve(i, [hooks EXCEPT !.result = calls[i].arg, !.converting = FALSE], <<>>)
  /\ UNCHANGED timers

FxNext ==
  \/ screen = "fx" /\ FxMount
  \/ FxTick \/ FxInput \/ FxConvert
  \/ \E i \in DOMAIN calls : FxLoaded(i) \/ ConvertServe(i) \/ FxConverted(i)
=============================================================================
