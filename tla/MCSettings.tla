----------------------------- MODULE MCSettings -----------------------------
EXTENDS Settings

CONSTANTS grafanaURL, theme, language, v1, v2

MCKeys == {grafanaURL, theme, language}
MCValues == {v1, v2}

====
