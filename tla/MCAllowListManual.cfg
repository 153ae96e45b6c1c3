SPECIFICATION Spec
CONSTANTS
    ada = ada
    bob = bob
    w1 = w1
    w2 = w2
    Upns = {ada, bob}
    Outside = {}
    Deployments <- Several
    Workers = {w1, w2}
    NoGrant = NoGrant
    Nobody = Nobody
PROPERTIES
    ManualGrantsStay
