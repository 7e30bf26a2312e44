SPECIFICATION FairCertificatesSpec
CONSTANTS
    Nodes = {n1}
    TLSNodes = {n1}
    Life = 2
    Window = 2
    MaxEvents = 2
INVARIANTS CertificatesTypeOK ConfirmedMeansServed
PROPERTIES NodeServesValid
