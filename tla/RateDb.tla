------------------------------- MODULE RateDb -------------------------------
(* The two tables of db/curr_exchange.sql and the statements of              *)
(* src/sql/sql.hpp on them.  A currency is known by its code (its id never   *)
(* changes and is as good a name); an exchange rate by its pair of           *)
(* currencies, and the value of a rate by the number of the statement that   *)
(* stored it.  Each statement is one transaction.                            *)
EXTENDS Naturals, FiniteSets

CONSTANTS Codes,       \* currency codes
          Pairs,       \* the pairs <<base, target>> clients store rates for
          MaxWrites    \* bound on the number of rates ever stored

ASSUME PairsAssumption == Pairs \subseteq Codes \X Codes
ASSUME MaxWritesAssumption == MaxWrites \in Nat \ {0}

VARIABLES currencies,  \* the codes in table currencies
          rates,       \* rates[p]: the stored rate of pair p, 0 when none is
          writes       \* how many rates have been stored

dbVars == <<currencies, rates, writes>>

Base(p) == p[1]
Target(p) == p[2]

Rates == [Pairs -> 0..MaxWrites]

\* The rate a table or a map holds for p.
RateOf(map, p) == IF p \in Pairs THEN map[p] ELSE 0

\* Constraints fk_base_currency_id and fk_target_currency_id.
References(p) == Base(p) \in currencies /\ Target(p) \in currencies

DbTypeOK == /\ currencies \in SUBSET Codes
            /\ writes \in 0..MaxWrites
            /\ rates \in Rates

\* Any database the service can find at its start.
DbInit == /\ currencies \in SUBSET Codes
          /\ writes \in {0, 1}
          /\ rates \in [Pairs -> 0..writes]
          /\ \A p \in Pairs : rates[p] > 0 => References(p)

Store(p) == /\ writes < MaxWrites
            /\ writes' = writes + 1
            /\ rates' = [rates EXCEPT ![p] = writes + 1]
            /\ UNCHANGED currencies

\* kInsertNewCurrency; constraint uniq_code.
InsertCurrency(code) ==
    /\ code \notin currencies
    /\ currencies' = currencies \cup {code}
    /\ UNCHANGED <<rates, writes>>

\* kInsertNewExchangeRate; constraint uniq_curr_pair.
InsertRate(p) == rates[p] = 0 /\ References(p) /\ Store(p)

\* kUpdateExchangeRateByCurrPair, when it finds a row.
UpdateRate(p) == rates[p] > 0 /\ Store(p)
=============================================================================
