---------------------------- MODULE MCRequests -----------------------------
(* Requests for TLC: three currencies with rates between them, and codes,    *)
(* names and bodies that are hard to code.                                   *)
EXTENDS Requests

MCUSD == <<85, 83, 68>>
eur == <<101, 117, 114>>           \* "eur"
Gbp == <<71, 98, 112>>             \* "Gbp"
usd == <<117, 115, 100>>
MCName == <<110>>
MCCode == <<99>>
MCSign == <<115>>
MCBase == <<98>>
MCTarget == <<116>>
MCRate == <<114>>
ok == <<43>>                       \* "+", which stays as it is

\* US, "us%", "A&=", "A/B", "%41", two bytes of UTF-8 for one letter, one byte
\* 255, none, and a long one.
OddCodes == {<<85, 83>>, <<117, 115, 37>>, <<65, 38, 61>>, <<65, 47, 66>>,
             <<37, 52, 49>>, <<195, 169>>, <<255>>, <<>>, <<117, 115, 100, 101>>}

Currency(name, code, sign) ==
    <<<<MCName, name>>, <<MCCode, code>>, <<MCSign, sign>>>>

MCCurrencyForms ==
    {Currency(ok, code, ok) : code \in OddCodes \cup {MCUSD, usd, eur, Gbp}}
    \cup {Currency(text, usd, ok) : text \in {<<>>, <<92, 37>>, <<0>>, <<255>>, <<43, 43, 43, 43>>}}
    \cup {Currency(ok, usd, text) : text \in {<<>>, <<38, 61>>, <<43, 43, 43, 43>>}}
    \cup {<<<<MCCode, eur>>, <<MCName, ok>>, <<MCCode, Gbp>>, <<MCSign, ok>>>>,
          <<<<MCName, ok>>, <<MCSign, ok>>>>}

\* The same form by hand; without "="; with two of them; with escapes that are
\* none: "%", "%%41", "%4", "%G1".
MCRawBodies == {<<>>, <<99, 61, 117, 92, 110, 61, 37, 52, 49, 38, 115, 61, 37>>,
                <<99>>, <<99, 61, 61>>, <<37>>, <<37, 37, 52, 49>>,
                <<37, 52>>, <<37, 71, 49>>}

UsdEur == <<49, 46, 54>>                \* 1.6, whose reverse, 0.625, is a tie
UsdGbp == <<48, 46, 54>>                \* 0.6, whose reverse has no end
EurGbp == <<46, 51, 55, 53>>            \* .375, a tie itself
Tiny == <<48, 46, 48, 48, 48, 52>>      \* 0.0004
Small == <<48, 46, 48, 48, 48, 53>>     \* 0.0005
Large == <<57, 57, 46, 57, 57, 57, 53>> \* 99.9995
Minus == <<45, 50>>                     \* -2
NotANumber == <<78, 97, 78>>
Long == <<48, 46, 48, 48, 48, 48, 48, 52>>
Letter == <<120>>

MCRateValue == UsdEur :> 16000 @@ UsdGbp :> 6000 @@ EurGbp :> 3750 @@ Tiny :> 4
               @@ Small :> 5 @@ Large :> 999995 @@ Minus :> -20000
               @@ NotANumber :> Null
Half == <<46, 53>>                      \* .5
Odd == <<52, 46, 53>>                   \* 4.5
MCAmountValue == Half :> 1 @@ Odd :> 9 @@ Minus :> -4 @@ NotANumber :> Null

\* A dollar is worth 24, a euro 15, a pound 40.
MCWorth == MCUSD :> 24 @@ ToUpper(eur) :> 15 @@ ToUpper(Gbp) :> 40
           @@ <<85, 83>> :> 30

RateForm(base, target, text) ==
    <<<<MCBase, base>>, <<MCTarget, target>>, <<MCRate, text>>>>

MCRateForms ==
    {RateForm(usd, eur, text) :
       text \in {UsdEur, Tiny, Small, Large, NotANumber, Long, Letter, <<>>}}
    \cup {RateForm(MCUSD, Gbp, text) : text \in {UsdGbp, Tiny, Minus}}
    \cup {RateForm(eur, Gbp, EurGbp), RateForm(<<85, 83>>, eur, UsdEur),
          RateForm(eur, <<>>, UsdEur), RateForm(eur, <<65, 66, 67, 68>>, UsdEur)}

MCPatchForms == {<<<<MCRate, text>>>> :
                   text \in {UsdEur, UsdGbp, Tiny, Large, Long, Letter}}

MCLookups == OddCodes \cup {MCUSD, usd, eur, Gbp, <<46>>}
MCPairLookups == {usd \o ToUpper(eur), MCUSD \o Gbp, eur \o Gbp, Gbp \o eur,
                  <<85, 83>> \o eur, <<>>, <<65, 38, 61>> \o <<65, 47, 66>>}
MCExchanges == {<<from, to, text>> : from, to \in {MCUSD, eur, Gbp, <<85, 83>>},
                                     text \in {Half, Odd, Minus, NotANumber, Letter}}
============================================================================
