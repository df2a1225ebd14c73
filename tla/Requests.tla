------------------------------ MODULE Requests ------------------------------
(* What requests say and what the replies say: the strings of a request from *)
(* the form, the path or the query to the tables, and the numbers of a       *)
(* conversion.  Requests come one after the other and the caches hold what   *)
(* the tables hold; how requests, statements and refreshes interleave is the *)
(* subject of RateService.                                                   *)
(*                                                                           *)
(* Codes, names and field names are sequences of bytes.  A stored rate is an *)
(* integer, in units of the last decimal of NUMERIC(8, 6).  A Decimal is a   *)
(* fraction; of a quotient it keeps the digits down to one in Precision, and *)
(* the last of them may be off by one.                                       *)
EXTENDS UrlCoding

CONSTANTS
    Name, Code, Sign, BaseCode, TargetCode, Rate,  \* the names of form fields
    MaxName, MaxSign, MaxRate,                     \* and limits of their sizes
    USD,            \* the code the handler of /exchange converts through
    Scale,          \* the units in one, 10^6 for NUMERIC(8, 6)
    Precision,      \* one divided by the last digit of a quotient
    AmountScale,    \* one divided by the last digit of amounts
    Null,           \* no number: NaN and the infinities, null in a reply
    RateValue,      \* the texts PostgreSQL reads as a numeric: their values
                    \*   in tenths of a unit, Null for NaN
    AmountValue,    \* the texts Decimal reads: their values, in units of the
                    \*   last digit of amounts, Null for nan and inf
    MaxCurrencies,  \* bound on the rows of table currencies
    CurrencyForms, RateForms, PatchForms,  \* forms: sequences of pairs
                                           \*   <<name, value>>
    RawBodies,      \* bodies that no such form has
    Lookups,        \* what is asked for after /currency/
    PairLookups,    \* and after /exchangerate/
    Exchanges,      \* queries of /exchange: <<from, to, amount>>
    Worth           \* what the currencies may be worth: a number for each code

MaxCode == 3

ASSUME LimitsAssumption ==
    {MaxName, MaxSign, MaxRate, Scale, Precision, AmountScale, MaxCurrencies}
      \subseteq Nat \ {0}
ASSUME ValuesAssumption ==
    /\ Null \notin Int
    /\ \A text \in DOMAIN RateValue : RateValue[text] \in Int \cup {Null}
    /\ \A text \in DOMAIN AmountValue : AmountValue[text] \in Int \cup {Null}
    /\ \A code \in DOMAIN Worth : Worth[code] \in Nat \ {0}
ASSUME TextsAssumption ==
    /\ CurrencyForms \cup RateForms \cup PatchForms
         \subseteq Seq(Seq(Bytes) \X Seq(Bytes))
    /\ RawBodies \cup Lookups \cup PairLookups \subseteq Seq(Bytes)

VARIABLES
    currencies,  \* the codes in table currencies
    rates,       \* rates[<<base, target>>]: the rates in table exchange_rates
    given,       \* given[p]: the value of the text that rates[p] was made from
    last         \* the last request and its reply

vars == <<currencies, rates, given, last>>

\* A reply says what it is about and, of a rate, its value and the converted
\* amount.
NoDto == [found |-> <<>>, rate |-> 0, converted |-> 0]
Blank == [op |-> "none", sent |-> <<>>, arrived |-> NoFields, asked |-> <<>>,
          status |-> "none", dto |-> NoDto]

Init == /\ currencies = {}
        /\ rates = NoFields
        /\ given = NoFields
        /\ last = Blank

----------------------------------------------------------------------------
(* Numbers and what a reply has of them.  A Decimal is a fraction; with the  *)
(* denominator 0 it is no number, and null in the reply.                     *)

NaN == [num |-> 0, den |-> 0]

\* str(2, std::ios::fixed): rounded to hundredths, a tie to the even one.
Cents(decimal) ==
    LET below == (100 * decimal.num) \div decimal.den
        twice == 2 * (100 * decimal.num - below * decimal.den)
    IN IF decimal.den = 0 THEN Null
       ELSE IF twice < decimal.den \/ (twice = decimal.den /\ below % 2 = 0)
         THEN below
         ELSE below + 1

Stored(units) == IF units = Null THEN NaN ELSE [num |-> units, den |-> Scale]

CurrencyDto(c) == [NoDto EXCEPT !.found = c]
ExchangeRateDto(p, units) ==
    [NoDto EXCEPT !.found = p, !.rate = Cents(Stored(units))]
ConvertedAmountDto(base, target, rate, converted) ==
    [found |-> <<base, target>>, rate |-> Cents(rate),
     converted |-> Cents(converted)]

----------------------------------------------------------------------------
\* What a client sends for a form: names and values encoded, and joined.
Wire(form) ==
    LET pair(i) == (IF i = 1 THEN <<>> ELSE <<Amp>>)
                   \o UrlEncode(form[i][1]) \o <<EqualSign>> \o UrlEncode(form[i][2])
    IN FlattenSeq([i \in DOMAIN form |-> pair(i)])

\* The requests with a body: a form and the body it is sent as, or no form.
Sent(forms) == {[form |-> form, body |-> Wire(form)] : form \in forms}
               \cup {[form |-> <<>>, body |-> body] : body \in RawBodies}

Has(fields, name) == name \in DOMAIN fields /\ fields[name] # <<>>

\* Mutant: the size of a field is not checked.
FitsAnySize(fields, name, limit) == Has(fields, name)

Fits(fields, name, limit) == Has(fields, name) /\ Len(fields[name]) <= limit

\* GetCurrencyByCode: the rows a search may find.
ByCode(code) == {c \in currencies : SameCode(c, code)}

\* A parse error escapes from the handler and is answered by the exceptions
\* handler, a field that is missing or too long with 400.
Refusal(form, fits) == IF ~ form.ok THEN "error" ELSE IF ~ fits THEN "badRequest"
                       ELSE "none"

CurrencyFits(fields) == /\ Fits(fields, Name, MaxName)
                        /\ Fits(fields, Code, MaxCode)
                        /\ Fits(fields, Sign, MaxSign)

\* Mutant: codes are stored as they come.
CurrencyCodeAsSent(fields) == fields[Code]

CurrencyCode(fields) == ToUpper(fields[Code])

\* What PostgreSQL takes for a text has no byte 0 and is UTF-8: the bytes it
\* refuses wherever they are, and those it refuses where they do not belong.
NoUtf8 == {0, 192, 193} \cup 245..255
PartOfUtf8 == 128..255
Have(texts, bytes) == \E text \in texts : ToSet(text) \cap bytes # {}
CurrencyTexts(fields) == {fields[Name], CurrencyCode(fields), fields[Sign]}

PostCurrency ==
    \E sent \in Sent(CurrencyForms) :
      LET form == Parsed(sent.body)
          refusal == Refusal(form, CurrencyFits(form.fields))
          Reply(status, dto) == last' = [Blank EXCEPT !.op = "postCurrency",
            !.sent = sent.form, !.arrived = form.fields, !.status = status,
            !.dto = dto]
          Unchanged(status) == Reply(status, NoDto) /\ UNCHANGED currencies
      IN /\ \/ refusal # "none" /\ Unchanged(refusal)
            \/ /\ refusal = "none"
               /\ Have(CurrencyTexts(form.fields), NoUtf8 \cup PartOfUtf8)
               /\ Unchanged("dbError")
            \/ /\ refusal = "none"
               /\ ~ Have(CurrencyTexts(form.fields), NoUtf8)
               /\ \/ /\ CurrencyCode(form.fields) \in currencies
                     /\ Unchanged("conflict")
                  \/ /\ CurrencyCode(form.fields) \notin currencies
                     /\ Cardinality(currencies) < MaxCurrencies
                     /\ currencies' = currencies \cup {CurrencyCode(form.fields)}
                     /\ Reply("ok", CurrencyDto(CurrencyCode(form.fields)))
         /\ UNCHANGED <<rates, given>>

----------------------------------------------------------------------------
\* numeric(8,6): the value is rounded to a unit, a tie away from zero, and less
\* than a hundred on either side of it; or it is NaN.
Rounded(value) == IF value = Null THEN Null
                  ELSE IF value < 0 THEN - ((5 - value) \div 10)
                  ELSE (value + 5) \div 10
RateColumn == (1 - 100 * Scale .. 100 * Scale - 1) \cup {Null}
Storable(text) == text \in DOMAIN RateValue /\ Rounded(RateValue[text]) \in RateColumn

Put(map, p, value) == [q \in DOMAIN map \cup {p} |-> IF q = p THEN value ELSE map[q]]

Store(p, text) == /\ rates' = Put(rates, p, Rounded(RateValue[text]))
                  /\ given' = Put(given, p, RateValue[text])

RateFits(fields) == /\ Fits(fields, BaseCode, MaxCode)
                    /\ Fits(fields, TargetCode, MaxCode)
                    /\ Fits(fields, Rate, MaxRate)

PostRate ==
    \E sent \in Sent(RateForms) :
      LET form == Parsed(sent.body)
          refusal == Refusal(form, RateFits(form.fields))
          Reply(status, dto) == last' = [Blank EXCEPT !.op = "postRate",
            !.sent = sent.form, !.arrived = form.fields, !.status = status,
            !.dto = dto]
          Unchanged(status) == Reply(status, NoDto) /\ UNCHANGED <<rates, given>>
          bases == ByCode(ToUpper(form.fields[BaseCode]))
          targets == ByCode(ToUpper(form.fields[TargetCode]))
          text == form.fields[Rate]
      IN /\ \/ refusal # "none" /\ Unchanged(refusal)
            \/ refusal = "none" /\ {} \in {bases, targets} /\ Unchanged("notFound")
            \/ /\ refusal = "none"
               /\ \E p \in bases \X targets :
                    \/ ~ Storable(text) /\ Unchanged("dbError")
                    \/ Storable(text) /\ p \in DOMAIN rates /\ Unchanged("conflict")
                    \/ /\ Storable(text) /\ p \notin DOMAIN rates /\ Store(p, text)
                       /\ Reply("ok", ExchangeRateDto(p, rates'[p]))
         /\ UNCHANGED currencies

\* The path leads to a handler and its variable to the pair of codes in it.
PairRefusal(asked) == IF ~ IsSegment(asked) THEN "noRoute"
                      ELSE IF ~ IsCurrPair(asked) THEN "badRequest"
                      ELSE "none"

PairsOf(asked) == ByCode(ToUpper(ParseCurrPair(asked)[1]))
                  \X ByCode(ToUpper(ParseCurrPair(asked)[2]))

\* Of a row that is not there and a text that is no number, the database may
\* notice either first.
PatchRate ==
    \E asked \in PairLookups, sent \in Sent(PatchForms) :
      LET form == Parsed(sent.body)
          refusal == Refusal(form, Fits(form.fields, Rate, MaxRate))
          text == form.fields[Rate]
          Refuse(status) == last' = [Blank EXCEPT !.op = "patchRate",
            !.asked = asked, !.status = status]
          Reply(status, dto) == last' = [Blank EXCEPT !.op = "patchRate",
            !.asked = asked, !.sent = sent.form, !.arrived = form.fields,
            !.status = status, !.dto = dto]
          Unchanged(status) == Reply(status, NoDto) /\ UNCHANGED <<rates, given>>
      IN /\ \/ /\ PairRefusal(asked) # "none"
               /\ Refuse(PairRefusal(asked)) /\ UNCHANGED <<rates, given>>
            \/ /\ PairRefusal(asked) = "none" /\ refusal # "none"
               /\ Unchanged(refusal)
            \/ /\ PairRefusal(asked) = "none" /\ refusal = "none"
               /\ \/ PairsOf(asked) = {} /\ Unchanged("notFound")
                  \/ \E p \in PairsOf(asked) :
                       \/ ~ Storable(text) /\ Unchanged("dbError")
                       \/ p \notin DOMAIN rates /\ Unchanged("notFound")
                       \/ /\ Storable(text) /\ p \in DOMAIN rates /\ Store(p, text)
                          /\ Reply("ok", ExchangeRateDto(p, rates'[p]))
         /\ UNCHANGED currencies

----------------------------------------------------------------------------
Lookup(op, asked, status, dto) ==
    /\ last' = [Blank EXCEPT !.op = op, !.asked = asked, !.status = status,
                              !.dto = dto]
    /\ UNCHANGED <<currencies, rates, given>>

GetCurrency ==
    \E asked \in Lookups :
      \/ ~ IsSegment(asked) /\ Lookup("getCurrency", asked, "noRoute", NoDto)
      \/ asked = <<>> /\ Lookup("getCurrency", asked, "badRequest", NoDto)
      \/ /\ IsSegment(asked) /\ asked # <<>> /\ ByCode(asked) = {}
         /\ Lookup("getCurrency", asked, "notFound", NoDto)
      \/ /\ IsSegment(asked) /\ asked # <<>>
         /\ \E c \in ByCode(asked) : Lookup("getCurrency", asked, "ok", CurrencyDto(c))

GetRate ==
    \E asked \in PairLookups :
      \/ /\ PairRefusal(asked) # "none"
         /\ Lookup("getRate", asked, PairRefusal(asked), NoDto)
      \/ /\ PairRefusal(asked) = "none"
         /\ \/ /\ PairsOf(asked) = {}
               /\ Lookup("getRate", asked, "notFound", NoDto)
            \/ \E p \in PairsOf(asked) :
                 IF p \in DOMAIN rates
                 THEN Lookup("getRate", asked, "ok", ExchangeRateDto(p, rates[p]))
                 ELSE Lookup("getRate", asked, "notFound", NoDto)

----------------------------------------------------------------------------
\* Conversions.  Decimal divides by multiplying with an inverse that it finds by
\* iteration: what it gets is one of the numbers around the quotient.
Around(num, den) ==
    LET below == (num * Precision) \div den
    IN {digits \in below - 1 .. below + 1 :
          digits * den \in num * Precision - den .. num * Precision + den}

Quotients(num, den) ==
    IF Null \in {num, den} \/ den = 0 THEN {NaN}
    ELSE {[num |-> digits, den |-> Precision] :
            digits \in IF den < 0 THEN Around(- num, - den) ELSE Around(num, den)}

CalcReverseRate(rate) == Quotients(Scale, rate)

\* Mutant: the two rates are mixed up.
CalcRateMixedUp(usdBaseRate, usdTargetRate) == Quotients(usdBaseRate, usdTargetRate)

CalcRateByUsdExchRates(usdBaseRate, usdTargetRate) ==
    Quotients(usdTargetRate, usdBaseRate)

\* Products keep all their digits.
CalcConvAmount(rate, amount) ==
    IF rate.den = 0 \/ amount = Null THEN NaN
    ELSE [num |-> rate.num * amount, den |-> rate.den * AmountScale]

\* What the rate of a conversion may be: the direct one, the reverse one, or the
\* one through USD; nothing when one of those two is missing.
RatesFor(base, target) ==
    IF <<base, target>> \in DOMAIN rates THEN {Stored(rates[<<base, target>>])}
    ELSE IF <<target, base>> \in DOMAIN rates
      THEN CalcReverseRate(rates[<<target, base>>])
    ELSE IF USD \in currencies /\ {<<USD, base>>, <<USD, target>>} \subseteq DOMAIN rates
      THEN CalcRateByUsdExchRates(rates[<<USD, base>>], rates[<<USD, target>>])
    ELSE {}

GetExchange ==
    \E query \in Exchanges :
      LET from == query[1]  to == query[2]  text == query[3]
          WithoutRate(status) == Lookup("getExchange", query, status, NoDto)
      IN \/ {Len(from), Len(to)} # {MaxCode} /\ WithoutRate("badRequest")
         \/ /\ {Len(from), Len(to)} = {MaxCode}
            /\ \/ {} \in {ByCode(from), ByCode(to)} /\ WithoutRate("notFound")
               \/ \E base \in ByCode(from), target \in ByCode(to) :
                    \/ RatesFor(base, target) = {} /\ WithoutRate("notFound")
                    \/ \E rate \in RatesFor(base, target) :
                         IF text \notin DOMAIN AmountValue THEN WithoutRate("error")
                         ELSE Lookup("getExchange", query, "ok",
                                ConvertedAmountDto(base, target, rate,
                                  CalcConvAmount(rate, AmountValue[text])))

----------------------------------------------------------------------------
\* The client has read the reply.
ReadReply == last # Blank /\ last' = Blank /\ UNCHANGED <<currencies, rates, given>>

Request == \/ PostCurrency \/ PostRate \/ PatchRate
           \/ GetCurrency \/ GetRate \/ GetExchange

Next == \/ last = Blank /\ Request
        \/ ReadReply

Spec == Init /\ [][Next]_vars

----------------------------------------------------------------------------
\* The values the columns of the tables can take: the checks of ParseRequest
\* leave PostgreSQL nothing to refuse for its length (VARCHAR(3)).
TypeOK ==
    /\ \A c \in currencies : c \in Seq(Bytes) /\ Len(c) \in 1..MaxCode
    /\ DOMAIN rates \subseteq currencies \X currencies
    /\ \A p \in DOMAIN rates : rates[p] \in RateColumn
    /\ DOMAIN given = DOMAIN rates
    /\ last.status \in {"none", "ok", "badRequest", "error", "noRoute",
                        "notFound", "conflict", "dbError"}

\* What a client puts into a form arrives, whatever bytes it has and however
\* often a name is repeated (the first value counts); only the byte 255 does
\* not, because its escape %FF is taken for none (url_coding.cpp:49).  The client
\* escapes as UrlEncode does: where a browser sends a space as "+", the service
\* leaves a plus.
FieldsArrive ==
    LET sent == FirstValues(last.sent)
    IN /\ last.sent # <<>>
       /\ \A i \in DOMAIN last.sent :
            255 \notin ToSet(last.sent[i][1]) \cup ToSet(last.sent[i][2])
       => last.arrived = sent

\* The table tells codes apart by their case (uniq_code), the cache does not:
\* no two rows may differ in case only, or one of them could not be found.
OneRowPerCode == \A c, d \in currencies : SameCode(c, d) => c = d

Plain(str) == ToSet(str) \subseteq Alnum

\* What was accepted can be asked for, in upper and lower case: a currency with
\* a code of letters and digits by its code, a rate by two such codes of three,
\* one after the other; and the answer, or the change, is about the row that was
\* meant.
FoundByItsCode ==
    /\ last.op = "getCurrency" =>
         IF last.status = "ok" THEN SameCode(last.dto.found, last.asked)
         ELSE Plain(last.asked) => ByCode(last.asked) = {}
    /\ last.op \in {"getRate", "patchRate"} /\ last.status = "ok" =>
         SameCode(last.dto.found[1] \o last.dto.found[2], last.asked)
    /\ last.op = "postRate" /\ last.status = "ok" =>
         SameCode(last.dto.found[1] \o last.dto.found[2],
                  last.arrived[BaseCode] \o last.arrived[TargetCode])
    /\ last.op = "getRate" /\ last.status # "ok" /\ Plain(last.asked) =>
         \A p \in DOMAIN rates :
           Len(p[1]) = 3 /\ Len(p[2]) = 3 => ~ SameCode(p[1] \o p[2], last.asked)

\* The rate is the quotient of what its two currencies are worth.
IsWorth(p) == /\ {p[1], p[2]} \subseteq DOMAIN Worth
              /\ rates[p] # Null
              /\ rates[p] * Worth[p[2]] = Worth[p[1]] * Scale

\* The hundredths are what an amount of the first currency is worth in the second
\* one, to half a hundredth and what the last digit of a quotient comes to.
SaysWorth(cents, amount, p) ==
    LET den == Worth[p[2]] * AmountScale
        margin == den * Precision
                  + 200 * Worth[p[2]] * (IF amount < 0 THEN - amount ELSE amount)
    IN 2 * Precision * (cents * den - 100 * (Worth[p[1]] * amount))
         \in - margin .. margin

\* If every rate is what its currencies are worth, every reply with a rate says
\* what they are worth, rounded to the hundredth, and a conversion does so
\* whichever rates it is made from.  Two routes may differ next to a tie, where the
\* last digit of a quotient decides, and by no more than a hundredth (of amounts
\* below a two hundredth of Precision).  It gives no number only where a rate or the
\* amount was given as none, or a rate as less than half a unit
\* (get_exchange.cpp:96, dto.cpp:15).
ConversionsAgree ==
    /\ last.op \in {"postRate", "patchRate", "getRate", "getExchange"}
    /\ last.status = "ok"
    => LET amount == AmountValue[last.asked[3]]
       IN IF Null \in {last.dto.rate, last.dto.converted}
            THEN \/ \E p \in DOMAIN rates : given[p] \in {Null} \cup (-4 .. 4)
                 \/ last.op = "getExchange" /\ amount = Null
            ELSE (\A p \in DOMAIN rates : IsWorth(p))
                 => /\ SaysWorth(last.dto.rate, AmountScale, last.dto.found)
                    /\ last.op = "getExchange" =>
                         SaysWorth(last.dto.converted, amount, last.dto.found)
============================================================================
