SPECIFICATION JwkSpec
CONSTANTS
    Base = 4
    CoordSize = 2
    EdSize = 2
    IntBytes = 2
    OnCurve <- MCOnCurve
    CertKey <- MCCertKey
    CallerKeys <- MCCallerKeys
    ForeignRaws <- MCForeignRaws
INVARIANTS
    RoundTrip
    PublicOfValid
PROPERTY
    CertOfKey
