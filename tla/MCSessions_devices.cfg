\* One user with two devices and a shop he may lose or join; three tokens in all.
SPECIFICATION Spec
CONSTANTS
    User = {u1}
    Merchant = {m1}
    NoMerchant = NoMerchant
    Session = {s1, s2}
    Request = {q1, q2}
    MaxTokens = 3
SYMMETRY Symmetric
INVARIANTS ExchangedOnce
PROPERTIES RevokedIsFinal 
CHECK_DEADLOCK FALSE
