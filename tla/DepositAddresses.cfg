SPECIFICATION FairSpec
CONSTANTS
    r1 = r1
    r2 = r2
    u1 = u1
    rsk = rsk
    bob = bob
    Bridge = {rsk, bob}
    EvmAddress = {u1}
    Request = {r1, r2}
    MaxId = 6
    MaxFaults = 2
INVARIANTS AddressInvariant CreditedToDepositor
PROPERTIES RequestsEnd
