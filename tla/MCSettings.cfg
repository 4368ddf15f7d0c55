CONSTANTS
    grafanaURL = grafanaURL
    theme = theme
    language = language
    v1 = v1
    v2 = v2
    Undefined = Undefined
    Keys <- MCKeys
    Values <- MCValues
    Grafana <- grafanaURL
    Theme <- theme
    Language <- language
    Dark <- v1
    EnUS <- v1
    ZhCN <- v2
    URL <- v2
    MaxCalls = 4
    MaxPerTask = 2

SPECIFICATION Spec

INVARIANT TypeOK
INVARIANT LastUpdateKept

\* The store runs nothing by itself: once MaxCalls calls have written, it is
\* idle with an empty queue, a state the program really stays in.
CHECK_DEADLOCK FALSE
