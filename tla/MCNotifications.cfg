CONSTANTS
    Alerts = {a1, a2}
    Keys = {k1}
    Day = 2
    QuietFrom = 1
    QuietTo = 1
    Period = 1
    Spacing = 2
    DigestTtl = 2
    Window = 2
    Forecasts <- PlainForecasts
    MaxDeaths = 1
SPECIFICATION Spec
INVARIANT TypeOK
PROPERTY AlertsSpaced
PROPERTY AlertsRecur
PROPERTY DigestSpaced
PROPERTY FailuresTold
