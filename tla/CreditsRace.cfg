SPECIFICATION CreditsSpec
CONSTANTS
    Users = {alice, bob}
    MaxBalance = 3
    Cards = {card1}
    Recharges = {rech1, rech2}
    Requests = {req1, req2}
    Values = {1}
    Expiries = {1}
    Nobody = nobody
    MaxTime = 2
SYMMETRY Interchangeable
INVARIANTS
    CreditsTypeOK
    CardCreditedOnce
    BalanceFromCredits
    ChargeCreditable
