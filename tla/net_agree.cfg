SPECIFICATION NetSpec
CONSTANTS
    t = t
    a = a
    b = b
    s1 = s1
    s2 = s2
    Device = {t, a, b}
    Thermostat = {t}
    V1 = {t}
    Session = {s1, s2}
    V1Hi = 2
    V2Lo = 3
    V2Hi = 5
    NoNode = NoNode
    Failures = TRUE
    MaxAnswers = 3
    Library = {a, b}
    Mishaps = {"silenced", "intruded", "restart"}
SYMMETRY Symmetry
INVARIANTS
    NetIInv
    Agreement
    AddressUnique
PROPERTIES
    OthersKept
